---- MODULE Spec2Model ----
(***************************************************************************)
(* Model of the physical frame allocator of MaxOS                          *)
(* (src/src/memory/frame_allocator.rs): a binary buddy allocator whose     *)
(* state tree and per-order markers are placed in the memory the boot      *)
(* memory map reports as usable.  Addresses are byte addresses; the state  *)
(* tree is the 1-indexed heap layout of the source, cell 0 the sentinel.   *)
(***************************************************************************)
EXTENDS Integers, Sequences, FiniteSets, TLC

\* frame_allocator.rs:14
PAGE_SIZE == 4096
\* size_of::<usize>() on x86_64, frame_allocator.rs:465
WordSize == 8

\* Pages of physical address space a boot memory map may describe.
MaxPages == 5
\* Entries of a boot memory map.
MaxEntries == 2
\* Page number at which the far entries of a sparse memory map start.
FarPage == 1024

VARIABLES
    memory_map,     \* the bootloader's memory map (read-only input)
    status,         \* "uninit" | "ready" | "halted" (ALLOCATOR_PTR / panic)
    region_start,   \* BuddyAllocator.region_start
    region_end,     \* BuddyAllocator.region_end
    max_order,      \* BuddyAllocator.max_order
    markers_ptr,    \* address of the markers slice
    markers,        \* contents of the markers slice, indexed 0..max_order
    state_tree_ptr, \* address of the state_tree slice
    state_tree,     \* contents of the state_tree slice, indexed 0..len-1
    live,           \* history: blocks returned by an allocation and not freed
    freed,          \* history: addresses freed and not returned by an allocation since
    pc,             \* index of the next statement of _start, 0 outside of it
    in_progress,    \* the allocator call that began and has not returned, if any
    buffer,         \* TerminalBuffer.buffer: address and size in bytes of the cells
    terminal,       \* TERMINAL: the Terminal behind the Once
    output,         \* the build's overflow checks, and history: the last write,
                    \* the panic it ended in, the calls of scroll_draw, the writes
    last,           \* history: the last call and its outcome
    prev            \* history: the call before the last one

vars == <<memory_map, status, region_start, region_end, max_order, markers_ptr,
          markers, state_tree_ptr, state_tree, live, freed, pc, in_progress, buffer,
          terminal, output, last, prev>>

----------------------------------------------------------------------------
(* Integer helpers standing for the shifts and masks of the source.        *)

RECURSIVE Pow2(_)
Pow2(n) == IF n <= 0 THEN 1 ELSE 2 * Pow2(n - 1)

\* usize::trailing_zeros for a value > 0
RECURSIVE trailing_zeros(_)
trailing_zeros(v) == IF v % 2 = 1 THEN 0 ELSE 1 + trailing_zeros(v \div 2)

\* memory.rs: value != 0 && (value & (value - 1)) == 0
RECURSIVE is_power_of_two(_)
is_power_of_two(value) ==
    IF value <= 0 THEN FALSE
    ELSE IF value = 1 THEN TRUE
    ELSE value % 2 = 0 /\ is_power_of_two(value \div 2)

\* memory.rs: (value & (alignment - 1)) == 0, alignment a power of two
is_aligned(value, alignment) == value % alignment = 0

\* memory.rs: (value + alignment - 1) & !(alignment - 1)
align_up(value, alignment) == ((value + alignment - 1) \div alignment) * alignment

\* memory.rs: value & !(alignment - 1)
align_down(value, alignment) == (value \div alignment) * alignment

\* Ord::clamp
clamp(v, lo, hi) == IF v < lo THEN lo ELSE IF v > hi THEN hi ELSE v

----------------------------------------------------------------------------
(* The boot memory map.                                                    *)

EntryTypes == {"USABLE", "RESERVED"}

Entries ==
    {[base |-> b * PAGE_SIZE, length |-> l * PAGE_SIZE, entry_type |-> t] :
        <<b, l, t>> \in {x \in (0 .. MaxPages - 1) \X (1 .. MaxPages) \X EntryTypes :
                            x[1] + x[2] <= MaxPages}}

\* Limine: entries sorted by base, USABLE entries page aligned and not overlapping.
WellFormed(mm) ==
    \A i \in 1 .. Len(mm) - 1 : mm[i].base + mm[i].length <= mm[i + 1].base

MemoryMaps ==
    {mm \in UNION {[1 .. n -> Entries] : n \in 0 .. MaxEntries} : WellFormed(mm)}

\* limine.rs MemoryMap::usable_entries
usable_entries(mm) == SelectSeq(mm, LAMBDA e : e.entry_type = "USABLE")

----------------------------------------------------------------------------
(* Block states and tree navigation.                                       *)

BlockState == {"Free", "Allocated", "Split", "Full", "Reserved"}

\* BlockState::is_usable
is_usable(s) == s \in {"Free", "Split"}

\* BlockState::is_free
is_free(s) == s = "Free"

\* BuddyAllocator::offset_for_order: 1 << order
offset_for_order(order) == Pow2(order)

\* BuddyAllocator::buddy: idx ^ 1, defined for idx > 1
buddy(idx) == IF idx % 2 = 0 THEN idx + 1 ELSE idx - 1

\* BuddyAllocator::parent: idx >> 1, defined for idx > 1
parent(idx) == idx \div 2

\* BuddyAllocator::set_state
set_state(tree, block, state) == [tree EXCEPT ![block] = state]

\* parent_state with the buddy left out of the Split test.
parent_state_own_child(tree, block) ==
    IF is_free(tree[block]) /\ is_free(tree[buddy(block)]) THEN "Free"
    ELSE IF is_usable(tree[block]) THEN "Split"
    ELSE "Full"

\* parent_state giving Reserved to a parent with no usable child.
parent_state_reserved(tree, block) ==
    IF is_free(tree[block]) /\ is_free(tree[buddy(block)]) THEN "Free"
    ELSE IF is_usable(tree[block]) \/ is_usable(tree[buddy(block)]) THEN "Split"
    ELSE "Reserved"

\* The state update_ancestors gives the parent of `block`.
parent_state(tree, block) ==
    IF is_free(tree[block]) /\ is_free(tree[buddy(block)]) THEN "Free"
    ELSE IF is_usable(tree[block]) \/ is_usable(tree[buddy(block)]) THEN "Split"
    ELSE "Full"

\* BuddyAllocator::update_ancestors: recompute every ancestor of `block`,
\* bottom up, from the states of its two children.  (The one-element set
\* binds the tree after each write, so that it is computed once.)
RECURSIVE update_ancestors(_, _)
update_ancestors(tree, block) ==
    IF block > 1
    THEN CHOOSE r \in {update_ancestors(t, parent(block)) :
                          t \in {set_state(tree, parent(block), parent_state(tree, block))}} :
             TRUE
    ELSE tree

\* One level of mark_subtree: cells level_start .. level_start + level_size - 1.
mark_level(tree, level_start, level_size, state) ==
    [i \in DOMAIN tree |->
        IF i >= level_start /\ i < level_start + level_size /\ tree[i] # "Reserved"
        THEN state ELSE tree[i]]

RECURSIVE mark_levels(_, _, _, _)
mark_levels(tree, level_start, level_size, state) ==
    IF level_start < Cardinality(DOMAIN tree)
    THEN CHOOSE r \in {mark_levels(t, 2 * level_start, 2 * level_size, state) :
                          t \in {mark_level(tree, level_start, level_size, state)}} : TRUE
    ELSE tree

\* mark_subtree writing the root of the subtree only.
mark_subtree_block_only(tree, block, state) == mark_level(tree, block, 1, state)

\* BuddyAllocator::mark_subtree: every cell of the subtree of `block` that is
\* not Reserved takes `state`.
mark_subtree(tree, block, state) == mark_levels(tree, block, 1, state)

----------------------------------------------------------------------------
(* Construction: BuddyAllocator::new_embedded and what it calls.           *)

\* BuddyAllocator::get_usable_region
get_usable_region(mm) ==
    LET usable == usable_entries(mm) IN
    IF Len(usable) = 0
    THEN [err |-> "NoUsableMemory", start |-> 0, end |-> 0]
    ELSE [err |-> "Ok",
          start |-> usable[1].base,
          end |-> usable[Len(usable)].base + usable[Len(usable)].length]

RECURSIVE bit_length(_)
bit_length(x) == IF x = 0 THEN 0 ELSE 1 + bit_length(x \div 2)

\* BuddyAllocator::max_order_for_usable_region
max_order_for_usable_region(usable_start, usable_end) ==
    bit_length((usable_end - usable_start - 1) \div PAGE_SIZE)

\* BuddyAllocator::size_of_tree_for_order
size_of_tree_for_order(order) == Pow2(order + 1)

\* BuddyAllocator::size_of_markers_for_order
size_of_markers_for_order(order) == (order + 1) * WordSize

\* select_data_start without the filter on the entry's length.
select_data_start_first_usable(mm, data_size) ==
    LET possible_data_pos == usable_entries(mm) IN
    IF Len(possible_data_pos) = 0
    THEN [err |-> "NotEnoughAvailableMemory", base |-> 0]
    ELSE [err |-> "Ok", base |-> possible_data_pos[1].base]

\* BuddyAllocator::select_data_start
select_data_start(mm, data_size) ==
    LET possible_data_pos == SelectSeq(usable_entries(mm), LAMBDA e : e.length >= data_size) IN
    IF Len(possible_data_pos) = 0
    THEN [err |-> "NotEnoughAvailableMemory", base |-> 0]
    ELSE [err |-> "Ok", base |-> possible_data_pos[1].base]

\* BuddyAllocator::init_markers
init_markers(markers_size) == [i \in 0 .. markers_size - 1 |-> Pow2(i)]

\* BuddyAllocator::init_block_tree
init_block_tree(tree_size) ==
    [i \in 0 .. tree_size - 1 |-> IF i = 0 THEN "Reserved" ELSE "Free"]

\* BuddyAllocator::clamp_addr
clamp_addr(self, address) == clamp(address, self.region_start, self.region_end)

\* BuddyAllocator::page_block_from; its assert!(is_aligned) is the AssertFailed
\* outcome of reserve_range and reserve_all_after
page_block_from(self, address) == (address - self.region_start) \div PAGE_SIZE

\* The loops of reserve_range and reserve_all_after: cells block .. end - 1
\* become Reserved in ascending order, ancestors recomputed after each (the
\* range is halved so that the evaluation stays shallow on long ranges).
RECURSIVE reserve_blocks(_, _, _)
reserve_blocks(tree, block, end) ==
    IF block >= end THEN tree
    ELSE IF end = block + 1
    THEN update_ancestors(set_state(tree, block, "Reserved"), block)
    ELSE LET mid == (block + end) \div 2 IN
         CHOOSE r \in {reserve_blocks(t, mid, end) :
                          t \in {reserve_blocks(tree, block, mid)}} : TRUE

\* reserve_range with the leaf offset left out of the loop bounds.
reserve_range_no_offset(self, start, end) ==
    IF end <= start THEN [err |-> "BadRange", self |-> self]
    ELSE
        LET first_addr == clamp_addr(self, align_down(start, PAGE_SIZE))
            last_addr == clamp_addr(self, align_up(end, PAGE_SIZE))
        IN IF ~is_aligned(first_addr, PAGE_SIZE) \/ ~is_aligned(last_addr, PAGE_SIZE)
           THEN [err |-> "AssertFailed", self |-> self]
           ELSE [err |-> "Ok",
                 self |-> [self EXCEPT !.state_tree =
                              reserve_blocks(@, page_block_from(self, first_addr),
                                                page_block_from(self, last_addr))]]

\* BuddyAllocator::reserve_range
reserve_range(self, start, end) ==
    IF end <= start THEN [err |-> "BadRange", self |-> self]
    ELSE
        LET first_addr == clamp_addr(self, align_down(start, PAGE_SIZE))
            last_addr == clamp_addr(self, align_up(end, PAGE_SIZE))
            offset == offset_for_order(self.max_order)
        IN IF ~is_aligned(first_addr, PAGE_SIZE) \/ ~is_aligned(last_addr, PAGE_SIZE)
           THEN [err |-> "AssertFailed", self |-> self]
           ELSE [err |-> "Ok",
                 self |-> [self EXCEPT !.state_tree =
                              reserve_blocks(@, page_block_from(self, first_addr) + offset,
                                                page_block_from(self, last_addr) + offset)]]

\* reserve_all_after starting one leaf past the page of `address`.
reserve_all_after_exclusive(self, address) ==
    LET addr == clamp_addr(self, align_down(address + 1, PAGE_SIZE))
        offset == offset_for_order(self.max_order)
    IN IF ~is_aligned(addr, PAGE_SIZE)
       THEN [err |-> "AssertFailed", self |-> self]
       ELSE [err |-> "Ok",
             self |-> [self EXCEPT !.state_tree =
                          reserve_blocks(@, page_block_from(self, addr) + offset + 1,
                                            Cardinality(DOMAIN self.state_tree))]]

\* BuddyAllocator::reserve_all_after
reserve_all_after(self, address) ==
    LET addr == clamp_addr(self, align_down(address + 1, PAGE_SIZE))
        offset == offset_for_order(self.max_order)
    IN IF ~is_aligned(addr, PAGE_SIZE)
       THEN [err |-> "AssertFailed", self |-> self]
       ELSE [err |-> "Ok",
             self |-> [self EXCEPT !.state_tree =
                          reserve_blocks(@, page_block_from(self, addr) + offset,
                                            Cardinality(DOMAIN self.state_tree))]]

\* The loop of set_reserved_from_mmap over the usable entries after the first.
RECURSIVE reserve_gaps(_, _, _, _)
reserve_gaps(self, usable, i, previous_end) ==
    IF i > Len(usable) THEN [err |-> "Ok", self |-> self, previous_end |-> previous_end]
    ELSE LET r == reserve_range(self, previous_end, usable[i].base) IN
         IF r.err # "Ok"
         THEN [err |-> r.err, self |-> r.self, previous_end |-> previous_end]
         ELSE reserve_gaps(r.self, usable, i + 1, usable[i].base + usable[i].length)

\* set_reserved_from_mmap without the reservation past the last USABLE end.
set_reserved_from_mmap_gaps_only(self, mm) ==
    LET usable == usable_entries(mm)
        g == reserve_gaps(self, usable, 2, usable[1].base + usable[1].length)
    IN [err |-> g.err, self |-> g.self]

\* BuddyAllocator::set_reserved_from_mmap
set_reserved_from_mmap(self, mm) ==
    LET usable == usable_entries(mm)
        g == reserve_gaps(self, usable, 2, usable[1].base + usable[1].length)
    IN IF g.err # "Ok" THEN [err |-> g.err, self |-> g.self]
       ELSE reserve_all_after(g.self, g.previous_end)

NoAllocator ==
    [region_start |-> 0, region_end |-> 0, max_order |-> 0, markers_ptr |-> 0,
     markers |-> <<>>, state_tree_ptr |-> 0, state_tree |-> <<>>]

\* new_embedded leaving region_start at the base of the metadata.
new_embedded_region_at_data(mm) ==
    LET region == get_usable_region(mm) IN
    IF region.err # "Ok" THEN [err |-> region.err, self |-> NoAllocator]
    ELSE
        LET order == max_order_for_usable_region(region.start, region.end)
            tree_size == size_of_tree_for_order(order)
            markers_size == size_of_markers_for_order(order)
            total_size == markers_size + tree_size
            data == select_data_start(mm, total_size)
        IN IF data.err # "Ok" THEN [err |-> data.err, self |-> NoAllocator]
           ELSE
               LET markers_start == data.base
                   tree_start == markers_start + markers_size
                   allocator ==
                       [region_start |-> align_down(tree_start + tree_size, PAGE_SIZE),
                        region_end |-> region.end,
                        max_order |-> order,
                        markers_ptr |-> markers_start,
                        markers |-> init_markers(order + 1),
                        state_tree_ptr |-> tree_start,
                        state_tree |-> init_block_tree(tree_size)]
               IN set_reserved_from_mmap(allocator, mm)

\* BuddyAllocator::new_embedded
new_embedded(mm) ==
    LET region == get_usable_region(mm) IN
    IF region.err # "Ok" THEN [err |-> region.err, self |-> NoAllocator]
    ELSE
        LET order == max_order_for_usable_region(region.start, region.end)
            tree_size == size_of_tree_for_order(order)
            markers_size == size_of_markers_for_order(order)
            total_size == markers_size + tree_size
            data == select_data_start(mm, total_size)
        IN IF data.err # "Ok" THEN [err |-> data.err, self |-> NoAllocator]
           ELSE
               LET markers_start == data.base
                   tree_start == markers_start + markers_size
                   allocator ==
                       [region_start |-> align_up(tree_start + tree_size, PAGE_SIZE),
                        region_end |-> region.end,
                        max_order |-> order,
                        markers_ptr |-> markers_start,
                        markers |-> init_markers(order + 1),
                        state_tree_ptr |-> tree_start,
                        state_tree |-> init_block_tree(tree_size)]
               IN set_reserved_from_mmap(allocator, mm)

----------------------------------------------------------------------------
(* Allocation and release.                                                 *)

\* BuddyAllocator::marker_for
marker_for(self, order) ==
    IF Pow2(order) > self.markers[order] THEN Pow2(order) ELSE self.markers[order]

\* set_marker_min with the comparison turned round.
set_marker_min_reversed(mk, order, min) ==
    IF mk[order] < min THEN [mk EXCEPT ![order] = min] ELSE mk

\* set_marker_min lowering the marker of every order.
set_marker_min_every_order(mk, order, min) ==
    [j \in DOMAIN mk |-> IF mk[j] > min THEN min ELSE mk[j]]

\* BuddyAllocator::set_marker_min
set_marker_min(mk, order, min) ==
    IF mk[order] > min THEN [mk EXCEPT ![order] = min] ELSE mk

\* BuddyAllocator::size_for_order
size_for_order(self, order) == PAGE_SIZE * Pow2(self.max_order - order)

\* allocate_block without the call of update_ancestors.
allocate_block_no_ancestors(self, block, order) ==
    [self |-> [self EXCEPT !.state_tree = mark_subtree(@, block, "Allocated")],
     addr |-> self.region_start + size_for_order(self, order) * (block - Pow2(order))]

\* BuddyAllocator::allocate_block
allocate_block(self, block, order) ==
    [self |-> [self EXCEPT !.state_tree =
                  update_ancestors(mark_subtree(@, block, "Allocated"), block)],
     addr |-> self.region_start + size_for_order(self, order) * (block - Pow2(order))]

\* The blocks the scan of allocate_order visits and finds Free.
scan_free(self, order) ==
    {block \in marker_for(self, order) .. (2 * Pow2(order) - 1) :
        is_free(self.state_tree[block])}

\* allocate_order moving the marker two past the block it took.
allocate_order_marker_skip(self, order) ==
    LET found == scan_free(self, order) IN
    IF found = {}
    THEN [ok |-> FALSE, err |-> "FR0", self |-> self, addr |-> 0, block |-> 0, order |-> order]
    ELSE LET block == CHOOSE b \in found : \A c \in found : b <= c
             r == allocate_block([self EXCEPT !.markers[order] = block + 2], block, order)
         IN [ok |-> TRUE, err |-> "", self |-> r.self, addr |-> r.addr, block |-> block,
             order |-> order]

\* BuddyAllocator::allocate_order: first Free block at or after the marker,
\* panic [FR0] when the scan finds none.
allocate_order(self, order) ==
    LET found == scan_free(self, order) IN
    IF found = {}
    THEN [ok |-> FALSE, err |-> "FR0", self |-> self, addr |-> 0, block |-> 0, order |-> order]
    ELSE LET block == CHOOSE b \in found : \A c \in found : b <= c
             r == allocate_block([self EXCEPT !.markers[order] = block + 1], block, order)
         IN [ok |-> TRUE, err |-> "", self |-> r.self, addr |-> r.addr, block |-> block,
             order |-> order]

\* BuddyAllocator::order_for_size; Some(order), or None for a size that is no
\* exact block size
order_for_size(self, size) ==
    IF is_aligned(size, PAGE_SIZE) /\ is_power_of_two(size)
    THEN [some |-> TRUE,
          order |-> self.max_order - (trailing_zeros(size) - trailing_zeros(PAGE_SIZE))]
    ELSE [some |-> FALSE, order |-> 0]

Panic(self, err) ==
    [ok |-> FALSE, err |-> err, self |-> self, addr |-> 0, block |-> 0, order |-> 0]

\* BuddyAllocator::allocate_exact: unwrap of None panics; an order below 0 is
\* a u8 underflow, which panics in the subtraction or at the marker lookup.
allocate_exact(self, size) ==
    LET order == order_for_size(self, size) IN
    IF ~order.some THEN Panic(self, "unwrap")
    ELSE IF order.order < 0 THEN Panic(self, "overflow")
    ELSE allocate_order(self, order.order)

RECURSIVE reverse_order_for(_, _, _)

\* The loop of allocate giving up one order early.
reverse_order_for_early_panic(self, size, reverse_order) ==
    IF PAGE_SIZE * Pow2(reverse_order) < size
    THEN IF reverse_order + 1 >= self.max_order THEN -1
         ELSE reverse_order_for(self, size, reverse_order + 1)
    ELSE reverse_order

\* The loop of allocate: smallest reverse_order with PAGE_SIZE << reverse_order >= size,
\* -1 when it passes max_order.
reverse_order_for(self, size, reverse_order) ==
    IF PAGE_SIZE * Pow2(reverse_order) < size
    THEN IF reverse_order + 1 > self.max_order THEN -1
         ELSE reverse_order_for(self, size, reverse_order + 1)
    ELSE reverse_order

\* BuddyAllocator::allocate
allocate(self, size) ==
    IF size = 0 THEN Panic(self, "assert")
    ELSE IF is_aligned(size, PAGE_SIZE) /\ is_power_of_two(size)
    THEN allocate_exact(self, size)
    ELSE LET reverse_order == reverse_order_for(self, size, 0) IN
         IF reverse_order < 0 THEN Panic(self, "unsupported")
         ELSE allocate_order(self, self.max_order - reverse_order)

\* find_allocated without the descent: the candidate block is taken as it is.
find_allocated_no_descent(tree, block) == block

\* The descent of free: from `block` down the left children until an
\* Allocated cell; 0 when the tree is exhausted ([FR1]).
RECURSIVE find_allocated(_, _)
find_allocated(tree, block) ==
    IF tree[block] = "Allocated" THEN block
    ELSE IF 2 * block >= Cardinality(DOMAIN tree) THEN 0
    ELSE find_allocated(tree, 2 * block)

\* The order of the block at index `block`: M - floor(log2 block)
order_of_block(block) == bit_length(block) - 1

\* free that gives back the block together with its buddy
free_with_buddy(self, address) ==
    LET val == (address - self.region_start) \div PAGE_SIZE
        rev_order == IF val = 0 THEN self.max_order ELSE trailing_zeros(val)
        order_offset == offset_for_order(self.max_order - rev_order)
        block_offset == val \div Pow2(rev_order)
        block == find_allocated(self.state_tree, order_offset + block_offset)
        order == order_of_block(block)
        top == IF block > 1 THEN parent(block) ELSE block
    IN IF block = 0 THEN Panic(self, "FR1")
       ELSE [ok |-> TRUE, err |-> "",
             self |-> [self EXCEPT
                          !.markers = set_marker_min(@, order, block),
                          !.state_tree = update_ancestors(mark_subtree(@, top, "Free"), top)],
             addr |-> address, block |-> block, order |-> order]

\* BuddyAllocator::free
free(self, address) ==
    LET val == (address - self.region_start) \div PAGE_SIZE
        rev_order == IF val = 0 THEN self.max_order ELSE trailing_zeros(val)
        order_offset == offset_for_order(self.max_order - rev_order)
        block_offset == val \div Pow2(rev_order)
        block == find_allocated(self.state_tree, order_offset + block_offset)
        order == order_of_block(block)
    IN IF block = 0 THEN Panic(self, "FR1")
       ELSE [ok |-> TRUE, err |-> "",
             self |-> [self EXCEPT
                          !.markers = set_marker_min(@, order, block),
                          !.state_tree = update_ancestors(mark_subtree(@, block, "Free"), block)],
             addr |-> address, block |-> block, order |-> order]

----------------------------------------------------------------------------
(* The kernel's calls on the process-wide allocator.                       *)

Self ==
    [region_start |-> region_start, region_end |-> region_end, max_order |-> max_order,
     markers_ptr |-> markers_ptr, markers |-> markers,
     state_tree_ptr |-> state_tree_ptr, state_tree |-> state_tree]

SetSelf(a) ==
    /\ region_start' = a.region_start
    /\ region_end' = a.region_end
    /\ max_order' = a.max_order
    /\ markers_ptr' = a.markers_ptr
    /\ markers' = a.markers
    /\ state_tree_ptr' = a.state_tree_ptr
    /\ state_tree' = a.state_tree

\* The terminal has no cell buffer yet.
NoBuffer == [addr |-> 0, size |-> 0]

\* TERMINAL before terminal::tty::init.
NoTerminal == <<>>

\* Nothing was written to the terminal yet.
NoOutput ==
    [input |-> <<>>, panic |-> "", scroll_draw |-> <<>>, writes |-> 0,
     overflow_checks |-> FALSE, locks |-> {}, grown |-> <<>>]

NoCall == [op |-> "none", ok |-> TRUE, err |-> "", order |-> 0, block |-> 0, addr |-> 0]

Call(op, r) ==
    [op |-> op, ok |-> r.ok, err |-> r.err, order |-> r.order, block |-> r.block,
     addr |-> r.addr]

Init ==
    /\ memory_map \in MemoryMaps
    /\ status = "uninit"
    /\ region_start = 0
    /\ region_end = 0
    /\ max_order = 0
    /\ markers_ptr = 0
    /\ markers = <<>>
    /\ state_tree_ptr = 0
    /\ state_tree = <<>>
    /\ live = {}
    /\ freed = {}
    /\ pc = 0
    /\ in_progress = <<>>
    /\ buffer = NoBuffer
    /\ terminal = NoTerminal
    /\ output = NoOutput
    /\ last = NoCall
    /\ prev = NoCall

\* frame_allocator::init: builds the allocator from the memory map; the
\* unwrap of a constructor error panics.
init ==
    /\ status = "uninit"
    /\ \E r \in {new_embedded(memory_map)} :
        /\ status' = IF r.err = "Ok" THEN "ready" ELSE "halted"
        /\ SetSelf(r.self)
        /\ last' = [NoCall EXCEPT !.op = "init", !.ok = (r.err = "Ok"), !.err = r.err]
    /\ prev' = last
    /\ UNCHANGED <<memory_map, terminal, output, live, freed, pc, in_progress, buffer>>

\* What a call leaves behind: the allocator as the call left it, the kernel
\* halted if the call panicked.
Finish(op, r) ==
    /\ SetSelf(r.self)
    /\ status' = IF r.ok THEN "ready" ELSE "halted"
    /\ last' = Call(op, r)
    /\ prev' = last
    /\ UNCHANGED <<memory_map, terminal, output, pc, in_progress, buffer>>

\* Sizes a caller may pass: every exact block size, one past the largest,
\* and sizes that are no exact block size.
Sizes ==
    {PAGE_SIZE * Pow2(k) : k \in 0 .. max_order + 1}
        \cup {0, 1, PAGE_SIZE + 1, 3 * PAGE_SIZE, PAGE_SIZE * Pow2(max_order) + 1}

\* frame_allocator::allocate_exact
AllocateExact(size) ==
    /\ status = "ready"
    /\ \E r \in {allocate_exact(Self, size)} :
        /\ Finish("allocate", r)
        /\ live' = IF r.ok THEN live \cup {[addr |-> r.addr, order |-> r.order]} ELSE live
        /\ freed' = IF r.ok THEN freed \ {r.addr} ELSE freed

\* frame_allocator::allocate
Allocate(size) ==
    /\ status = "ready"
    /\ \E r \in {allocate(Self, size)} :
        /\ Finish("allocate", r)
        /\ live' = IF r.ok THEN live \cup {[addr |-> r.addr, order |-> r.order]} ELSE live
        /\ freed' = IF r.ok THEN freed \ {r.addr} ELSE freed

\* frame_allocator::free, called as its precondition asks: with an address
\* an allocation returned and that was not freed since.
Free(address) ==
    /\ status = "ready"
    /\ \E l \in live : l.addr = address
    /\ \E r \in {free(Self, address)} :
        /\ Finish("free", r)
        /\ live' = IF r.ok THEN {l \in live : l.addr # address} ELSE live
        /\ freed' = IF r.ok THEN freed \cup {address} ELSE freed

Next ==
    \/ init
    \/ \E size \in Sizes : AllocateExact(size)
    \/ \E size \in Sizes : Allocate(size)
    \/ \E l \in live : Free(l.addr)

Spec == Init /\ [][Next]_vars

----------------------------------------------------------------------------
(* Vocabulary of the properties.                                           *)

\* Index range of the blocks of one order.
BlocksOfOrder(order) == Pow2(order) .. (2 * Pow2(order) - 1)

\* The leaves (single pages) of an allocator with the given max_order.
Leaves(self) == BlocksOfOrder(self.max_order)

\* First byte of the page of a leaf.
LeafAddr(self, leaf) == self.region_start + (leaf - Pow2(self.max_order)) * PAGE_SIZE

\* The leaves below a block of the given order.
LeavesOf(self, block, order) ==
    LET width == Pow2(self.max_order - order) IN
    {leaf \in Leaves(self) : leaf \div width = block}

\* The page starting at `addr` lies in a USABLE entry of the memory map.
PageUsable(addr) ==
    \E i \in 1 .. Len(memory_map) :
        /\ memory_map[i].entry_type = "USABLE"
        /\ memory_map[i].base <= addr
        /\ addr + PAGE_SIZE <= memory_map[i].base + memory_map[i].length

\* The leaves whose page lies in the managed region.
RegionLeaves(self) ==
    {leaf \in Leaves(self) :
        /\ LeafAddr(self, leaf) >= self.region_start
        /\ LeafAddr(self, leaf) + PAGE_SIZE <= self.region_end}

FreeLeaves(self) == {leaf \in Leaves(self) : self.state_tree[leaf] = "Free"}

\* A step in which an allocation returned a block.
AllocStep == last'.op = "allocate" /\ last'.ok /\ status = "ready" /\ status' = "ready"

----------------------------------------------------------------------------
(* C1.  Every block an allocation returns lies inside                      *)
(* [region_start, region_end), every leaf below it was Free when the       *)
(* allocation started, and each of its pages lies in a USABLE entry: it    *)
(* never overlaps a gap between USABLE entries or memory past the last     *)
(* USABLE end.                                                             *)
C1_AllocatedInsideUsable ==
    [][AllocStep =>
        LET covered == LeavesOf(Self, last'.block, last'.order) IN
        /\ last'.addr >= region_start
        /\ last'.addr + size_for_order(Self, last'.order) <= region_end
        /\ last'.addr = LeafAddr(Self, CHOOSE l \in covered : \A c \in covered : l <= c)
        /\ \A leaf \in covered :
            /\ state_tree[leaf] = "Free"
            /\ PageUsable(LeafAddr(Self, leaf))]_vars

\* A block of several pages was allocated from a region that holds a gap.
C1_Witness ==
    /\ status = "ready"
    /\ last.op = "allocate" /\ last.ok
    /\ last.order < max_order
    /\ \E leaf \in RegionLeaves(Self) : state_tree[leaf] = "Reserved"

----------------------------------------------------------------------------
(* C2.  Fill-and-drain.                                                    *)

\* n successive allocate_exact(PAGE_SIZE) calls, stopping at the first panic.
RECURSIVE fill(_, _, _)
fill(self, n, addrs) ==
    IF n = 0 THEN [ok |-> TRUE, self |-> self, addrs |-> addrs]
    ELSE LET r == allocate_exact(self, PAGE_SIZE) IN
         IF ~r.ok THEN [ok |-> FALSE, self |-> self, addrs |-> addrs]
         ELSE fill(r.self, n - 1, addrs \cup {r.addr})

\* Freeing the addresses, in whatever order, panics nowhere and ends with
\* `count` Free leaves.
RECURSIVE drain(_, _, _)
drain(self, addrs, count) ==
    IF addrs = {} THEN Cardinality(FreeLeaves(self)) = count
    ELSE \A a \in addrs :
            LET f == free(self, a) IN f.ok /\ drain(f.self, addrs \ {a}, count)

\* C2: with N the number of Free leaves right after init, N successive
\* allocate_exact(PAGE_SIZE) calls succeed and return N distinct pages, no
\* leaf is Free afterwards, the next call panics, and freeing the N addresses
\* in any order brings the number of Free leaves back to N.
C2_FillAndDrain ==
    (status = "ready" /\ last.op = "init") =>
        LET N == Cardinality(FreeLeaves(Self))
            f == fill(Self, N, {})
        IN /\ f.ok
           /\ Cardinality(f.addrs) = N
           /\ FreeLeaves(f.self) = {}
           /\ ~allocate_exact(f.self, PAGE_SIZE).ok
           /\ drain(f.self, f.addrs, N)

\* The kernel filled the allocator page by page and the next page
\* allocation panicked.
C2_Witness ==
    /\ status = "halted"
    /\ last.op = "allocate" /\ last.err = "FR0" /\ last.order = max_order
    /\ Cardinality(live) >= 3
    /\ \A l \in live : l.order = max_order
    /\ FreeLeaves(Self) = {}
    /\ Cardinality(live) = Cardinality({leaf \in RegionLeaves(Self) : PageUsable(LeafAddr(Self, leaf))})

----------------------------------------------------------------------------
(* C3.  allocate_order(k) panics only when no block of order k is Free:    *)
(* whenever a Free block of order k exists the call succeeds and returns   *)
(* a Free block of that order.                                             *)
C3_PanicOnlyWhenNoFreeBlock ==
    (status = "halted" /\ last.op = "allocate" /\ last.err = "FR0") =>
        \A block \in BlocksOfOrder(last.order) : state_tree[block] # "Free"

----------------------------------------------------------------------------
(* C4.  Marker invariant: for every order k, markers[k] >= 2^k and no Free *)
(* block of order k has an index lower than markers[k].                    *)
C4_MarkerInvariant ==
    (status # "uninit" /\ last.ok) =>
        \A k \in 0 .. max_order :
            /\ markers[k] >= Pow2(k)
            /\ \A block \in BlocksOfOrder(k) :
                state_tree[block] = "Free" => block >= markers[k]

----------------------------------------------------------------------------
(* C5.  Ancestor invariant.                                                *)

\* The propagation rule: the state of a node with children in states l and r.
Rule(l, r) ==
    IF l = "Free" /\ r = "Free" THEN "Free"
    ELSE IF l \in {"Free", "Split"} \/ r \in {"Free", "Split"} THEN "Split"
    ELSE "Full"

\* The allocator was built (init returned Ok) and may have halted since.
Built == status # "uninit" /\ ~(last.op = "init" /\ ~last.ok)

NonLeaves == 1 .. (Pow2(max_order) - 1)

\* C5 as claimed: every non-leaf node satisfies the propagation rule
\* against its two children.
C5_AncestorRuleEveryNode ==
    Built => \A p \in NonLeaves :
                state_tree[p] = Rule(state_tree[2 * p], state_tree[2 * p + 1])

\* C5 as amended: every non-leaf node that is not itself Allocated satisfies
\* the propagation rule against its two children.
C5_AncestorRuleUnlessAllocated ==
    Built => \A p \in NonLeaves :
                state_tree[p] # "Allocated" =>
                    state_tree[p] = Rule(state_tree[2 * p], state_tree[2 * p + 1])

\* A tree that holds a Split node, a Full node and an Allocated non-leaf
\* after a block was freed.
C5_Witness ==
    /\ status = "ready" /\ last.op = "free" /\ last.ok
    /\ \E p \in NonLeaves : state_tree[p] = "Split"
    /\ \E p \in NonLeaves : state_tree[p] = "Full"
    /\ \E p \in NonLeaves : state_tree[p] = "Allocated"

----------------------------------------------------------------------------
(* C6.  Buddy coalescing: two sibling pages allocated by consecutive page  *)
(* allocations and then both freed leave their parent Free, and an         *)
(* allocation of the double size that follows returns the parent's start.  *)

\* The outcome of the calls after the two page allocations r1 and r2:
\* the frees in the order a, b and the allocation of two pages.
Coalesced(r2, a, b, parent_block, parent_addr) ==
    LET f1 == free(r2.self, a)
        f2 == free(f1.self, b)
        r3 == allocate_exact(f2.self, 2 * PAGE_SIZE)
    IN /\ f1.ok /\ f2.ok
       /\ f2.self.state_tree[parent_block] = "Free"
       /\ r3.ok /\ r3.addr = parent_addr

\* C6: from any state the calls can reach, when two consecutive page
\* allocations return sibling pages and both are freed (in either order),
\* the parent is Free and allocate_exact(2 * PAGE_SIZE) returns its start.
C6_BuddyCoalescing ==
    (status = "ready" /\ max_order >= 1) =>
        LET r1 == allocate_exact(Self, PAGE_SIZE)
            r2 == allocate_exact(r1.self, PAGE_SIZE)
        IN (r1.ok /\ r2.ok /\ r1.block % 2 = 0 /\ r2.block = r1.block + 1) =>
                /\ Coalesced(r2, r1.addr, r2.addr, r1.block \div 2, r1.addr)
                /\ Coalesced(r2, r2.addr, r1.addr, r1.block \div 2, r1.addr)

----------------------------------------------------------------------------
(* C7.  Same-address reallocation: a block of order k is allocated, freed, *)
(* and the allocation of order k that follows at once succeeds and returns *)
(* the address of the block just freed.                                    *)
C7_SameAddressReallocation ==
    [][(/\ status = "ready"
        /\ prev.op = "allocate" /\ prev.ok
        /\ last.op = "free" /\ last.ok /\ last.addr = prev.addr
        /\ last'.op = "allocate" /\ last'.order = prev.order /\ prev' = last)
            => (last'.ok /\ last'.addr = prev.addr /\ last'.block = prev.block)]_vars

\* A block of several pages and then a single page were each allocated
\* again right after their release.
C7_Witness ==
    /\ status = "ready"
    /\ prev.op = "free" /\ prev.ok
    /\ last.op = "allocate" /\ last.ok
    /\ last.order = prev.order /\ last.addr = prev.addr
    /\ last.addr > region_start
    /\ Cardinality(live) >= 2

----------------------------------------------------------------------------
(* C8.  Allocate/free round trip: freeing the address an allocation just   *)
(* returned gives every cell of state_tree the value it had before the     *)
(* allocation.                                                             *)
C8_RoundTripRestoresTree ==
    [][AllocStep =>
        LET f == free(Self', last'.addr) IN
        /\ f.ok
        /\ f.block = last'.block
        /\ f.self.state_tree = state_tree]_vars

\* A block of several pages was allocated from a tree holding other live
\* blocks and freed by the next call.
C8_Witness ==
    /\ status = "ready"
    /\ prev.op = "allocate" /\ prev.ok
    /\ last.op = "free" /\ last.ok /\ last.addr = prev.addr /\ last.block = prev.block
    /\ last.order < max_order
    /\ live # {}

----------------------------------------------------------------------------
(* C9.  Coverage after init: of the leaves whose page lies in              *)
(* [region_start, region_end), those whose page no USABLE entry covers are *)
(* Reserved and all the others are Free.                                   *)
C9_CoverageAfterInit ==
    (status = "ready" /\ last.op = "init") =>
        \A leaf \in RegionLeaves(Self) :
            IF PageUsable(LeafAddr(Self, leaf))
            THEN state_tree[leaf] = "Free"
            ELSE state_tree[leaf] = "Reserved"

\* init met a gap between two USABLE entries inside the managed region.
C9_Witness ==
    /\ status = "ready" /\ last.op = "init"
    /\ \E leaf \in RegionLeaves(Self) : state_tree[leaf] = "Reserved"
    /\ \E leaf \in RegionLeaves(Self) :
        /\ state_tree[leaf] = "Free"
        /\ \E below \in RegionLeaves(Self) : below < leaf /\ state_tree[below] = "Reserved"

----------------------------------------------------------------------------
(* C10.  Self-embedded metadata.                                           *)

\* One byte past the state tree (one byte per cell).
MetadataEnd == state_tree_ptr + Cardinality(DOMAIN state_tree)

\* The byte ranges [a, a + n) and [b, b + m) share a byte.
Overlap(a, n, b, m) == a < b + m /\ b < a + n

\* No live block shares a byte with markers or state_tree.
NoLiveBlockOnMetadata ==
    \A l \in live :
        ~Overlap(l.addr, size_for_order(Self, l.order),
                 markers_ptr, MetadataEnd - markers_ptr)

\* C10 as claimed: markers and state_tree lie in pages of the managed
\* region [region_start, region_end), the leaves of these pages are
\* Reserved, and no allocation returns memory overlapping them.
C10_MetadataInsideRegion ==
    Built =>
        /\ region_start <= markers_ptr
        /\ MetadataEnd <= region_end
        /\ \A leaf \in Leaves(Self) :
            Overlap(LeafAddr(Self, leaf), PAGE_SIZE, markers_ptr, MetadataEnd - markers_ptr)
                => state_tree[leaf] = "Reserved"
        /\ NoLiveBlockOnMetadata

\* C10 as amended: markers and state_tree lie back to back at the base of a
\* USABLE entry, in the pages that end at region_start, so below the managed
\* region and under no leaf of the tree; no allocation returns memory
\* overlapping them.
C10_MetadataBelowRegion ==
    Built =>
        /\ state_tree_ptr = markers_ptr + (max_order + 1) * WordSize
        /\ \E i \in 1 .. Len(memory_map) :
            /\ memory_map[i].entry_type = "USABLE"
            /\ memory_map[i].base = markers_ptr
            /\ region_start <= memory_map[i].base + memory_map[i].length
        /\ region_start = align_up(MetadataEnd, PAGE_SIZE)
        /\ \A leaf \in Leaves(Self) :
            ~Overlap(LeafAddr(Self, leaf), PAGE_SIZE, markers_ptr, MetadataEnd - markers_ptr)
        /\ NoLiveBlockOnMetadata

\* The page right after the metadata was handed out.
C10_Witness ==
    /\ status = "ready"
    /\ \E l \in live : l.addr = region_start /\ l.order < max_order
    /\ markers_ptr > 0

----------------------------------------------------------------------------
(* C11.  Scenario B: a memory map with a single USABLE entry of 16 MiB.    *)

MiB == Pow2(20)

\* The memory map of scenario B: one USABLE entry of 16 MiB.
ScenarioBMap == <<[base |-> MiB, length |-> 16 * MiB, entry_type |-> "USABLE"]>>

InitB ==
    /\ memory_map = ScenarioBMap
    /\ status = "uninit"
    /\ region_start = 0
    /\ region_end = 0
    /\ max_order = 0
    /\ markers_ptr = 0
    /\ markers = <<>>
    /\ state_tree_ptr = 0
    /\ state_tree = <<>>
    /\ live = {}
    /\ freed = {}
    /\ pc = 0
    /\ in_progress = <<>>
    /\ buffer = NoBuffer
    /\ terminal = NoTerminal
    /\ output = NoOutput
    /\ last = NoCall
    /\ prev = NoCall

\* The block sizes scenario B asks for.
SizesB == {4 * MiB, 8 * MiB, 16 * MiB}

NextB ==
    \/ init
    \/ \E size \in SizesB : AllocateExact(size)
    \/ \E l \in live : Free(l.addr)

SpecB == InitB /\ [][NextB]_vars

\* C11: right after init on a single 16 MiB USABLE entry max_order is 12;
\* the first 8 MiB allocation returns region_start; a second 8 MiB
\* allocation panics; once the first block is freed a 16 MiB allocation
\* panics and two successive 4 MiB allocations both succeed.
C11_ScenarioB ==
    (status = "ready" /\ last.op = "init") =>
        LET r1 == allocate_exact(Self, 8 * MiB)
            r2 == allocate_exact(r1.self, 8 * MiB)
            f1 == free(r1.self, r1.addr)
            r3 == allocate_exact(f1.self, 16 * MiB)
            r4 == allocate_exact(f1.self, 4 * MiB)
            r5 == allocate_exact(r4.self, 4 * MiB)
        IN /\ max_order = 12
           /\ r1.ok /\ r1.addr = region_start
           /\ ~r2.ok /\ r2.self = r1.self
           /\ f1.ok
           /\ ~r3.ok /\ r3.self = f1.self
           /\ r4.ok /\ r5.ok /\ r4.addr # r5.addr

\* The kernel allocated 8 MiB at region_start and its second 8 MiB
\* allocation panicked.
C11_Witness ==
    /\ status = "halted"
    /\ max_order = 12
    /\ last.op = "allocate" /\ last.err = "FR0" /\ last.order = 1
    /\ live = {[addr |-> region_start, order |-> 1]}

----------------------------------------------------------------------------
(* C12.  allocate(size) for size > 0.                                      *)

\* The sizes of the blocks of the tree: PAGE_SIZE * 2^r for r in 0 .. max_order.
BlockSizes == {PAGE_SIZE * Pow2(r) : r \in 0 .. max_order}

\* C12: for a size that is a power of two and a multiple of PAGE_SIZE,
\* allocate gives what allocate_exact gives; for any other size up to
\* PAGE_SIZE << max_order it gives what allocate_order gives for the order of
\* the smallest block size that is >= size; for every size above
\* PAGE_SIZE << max_order it panics and leaves the allocator as it was.
C12_AllocateRoundsUp ==
    status = "ready" =>
        \A size \in Sizes \ {0} :
            LET r == allocate(Self, size) IN
            /\ (is_power_of_two(size) /\ is_aligned(size, PAGE_SIZE))
                    => r = allocate_exact(Self, size)
            /\ (~(is_power_of_two(size) /\ is_aligned(size, PAGE_SIZE))
                    /\ size <= PAGE_SIZE * Pow2(max_order))
                    => LET smallest == CHOOSE b \in BlockSizes :
                                          b >= size /\ \A c \in BlockSizes : c >= size => b <= c
                       IN /\ r = allocate_order(Self, r.order)
                          /\ size_for_order(Self, r.order) = smallest
            /\ size > PAGE_SIZE * Pow2(max_order) => (~r.ok /\ r.self = Self)

\* allocate panicked on a size above the largest block while blocks of
\* several pages, which only a rounded or exact request produces, are live.
C12_Witness ==
    /\ status = "halted"
    /\ last.op = "allocate" /\ last.err = "unsupported"
    /\ max_order >= 2
    /\ \E l \in live : l.order < max_order

----------------------------------------------------------------------------
(* C13.  Double free: free of an address that was freed and that no         *)
(* allocation returned since panics, and leaves state_tree and markers     *)
(* as they were.                                                           *)
C13_DoubleFreePanics ==
    status = "ready" =>
        \A address \in freed :
            LET f == free(Self, address) IN
            /\ ~f.ok
            /\ f.self.state_tree = state_tree
            /\ f.self.markers = markers

----------------------------------------------------------------------------
(* C14.  Free of an unallocated block: free panics, and leaves state_tree  *)
(* and markers as they were, for every page-aligned address of the managed *)
(* region that is not the start address of a live allocation.              *)
C14_FreeOfUnallocatedPanics ==
    status = "ready" =>
        \A leaf \in RegionLeaves(Self) :
            LET address == LeafAddr(Self, leaf)
                f == free(Self, address)
            IN (\A l \in live : l.addr # address) =>
                    /\ ~f.ok
                    /\ f.self.state_tree = state_tree
                    /\ f.self.markers = markers

----------------------------------------------------------------------------
(* C15.  The process-wide handle ALLOCATOR_PTR under any order of calls.   *)

\* Once::call_once building the allocator whether or not one is there.
call_once_rebuilds(cur_status, cur, mm) == new_embedded(mm)

\* Once::call_once as init uses it: the closure (new_embedded) runs only
\* when ALLOCATOR_PTR is not set yet; otherwise the value it holds stays.
call_once(cur_status, cur, mm) ==
    IF cur_status = "uninit" THEN new_embedded(mm) ELSE [err |-> "Ok", self |-> cur]

\* with_allocator: ALLOCATOR_PTR.get().expect(..) panics [FR4] when the
\* handle is not set; otherwise the call goes to the allocator.
with_allocator(cur_status, cur, r) ==
    IF cur_status = "uninit" THEN Panic(cur, "FR4") ELSE r

\* frame_allocator::init called when ALLOCATOR_PTR is already set.
init_again ==
    /\ status = "ready"
    /\ \E r \in {call_once(status, Self, memory_map)} :
        /\ status' = IF r.err = "Ok" THEN "ready" ELSE "halted"
        /\ SetSelf(r.self)
        /\ last' = [NoCall EXCEPT !.op = "init", !.ok = (r.err = "Ok"), !.err = r.err]
    /\ prev' = last
    /\ UNCHANGED <<memory_map, terminal, output, live, freed, pc, in_progress, buffer>>

\* frame_allocator::allocate_exact, allocate or free called before init.
CallBeforeInit(op) ==
    /\ status = "uninit"
    /\ \E arg \in {PAGE_SIZE, PAGE_SIZE + 1} :
        \E r \in {with_allocator(status, Self,
                                 IF op = "allocate_exact" THEN allocate_exact(Self, arg)
                                 ELSE IF op = "allocate" THEN allocate(Self, arg)
                                 ELSE free(Self, arg))} :
            Finish(IF op = "free" THEN "free" ELSE "allocate", r)
    /\ UNCHANGED <<live, freed>>

NextOnce ==
    \/ Next
    \/ init_again
    \/ \E op \in {"allocate_exact", "allocate", "free"} : CallBeforeInit(op)

SpecOnce == Init /\ [][NextOnce]_vars

\* C15: a call of allocate, allocate_exact or free made before init panics
\* and builds nothing; a call of init made when the allocator is built
\* leaves every field of the allocator, and the kernel, as they were.
C15_OneShotHandle ==
    [][/\ (status = "uninit" /\ last'.op \in {"allocate", "free"})
            => (status' = "halted" /\ ~last'.ok /\ last'.err = "FR4" /\ Self' = Self)
       /\ (status = "ready" /\ last'.op = "init")
            => (status' = "ready" /\ last'.ok /\ Self' = Self /\ live' = live)]_vars

\* init was called again while blocks were live and markers had moved.
C15_Witness ==
    /\ status = "ready"
    /\ last.op = "init" /\ prev.op = "free" /\ prev.ok
    /\ live # {}
    /\ \E k \in 0 .. max_order : markers[k] > Pow2(k)

----------------------------------------------------------------------------
(* C16.  The kernel start sequence (main.rs, _start).                      *)

\* The calls of _start, in program order.
_start ==
    <<"limine::init",
      "cpu::interrupts::init",
      "drivers::framebuffer::init",
      "terminal::init",
      "memory::frame_allocator::init",
      "println">>

\* The calls of _start that allocate: framebuffer::init takes the back
\* buffer, terminal::init (TerminalBuffer::new) takes the cell buffer.
Allocating == {"drivers::framebuffer::init", "terminal::init"}

\* Sizes in bytes of the back buffer and of the cell buffer.
BootSizes == {PAGE_SIZE, PAGE_SIZE + 1, 2 * PAGE_SIZE}

\* What one call of _start does to the allocator handle.
start_call(call, size) ==
    IF call \in Allocating
    THEN LET r == with_allocator(status, Self, allocate(Self, size)) IN
         [status |-> IF r.ok THEN status ELSE "halted", self |-> r.self,
          last |-> Call("allocate", r),
          live |-> IF r.ok THEN {[addr |-> r.addr, order |-> r.order]} ELSE {},
          buffer |-> IF r.ok /\ call = "terminal::init"
                     THEN [addr |-> r.addr, size |-> size] ELSE buffer]
    ELSE IF call = "memory::frame_allocator::init"
    THEN LET r == call_once(status, Self, memory_map) IN
         [status |-> IF r.err = "Ok" THEN "ready" ELSE "halted", self |-> r.self,
          last |-> [NoCall EXCEPT !.op = "init", !.ok = (r.err = "Ok"), !.err = r.err],
          live |-> {}, buffer |-> buffer]
    ELSE [status |-> status, self |-> Self, last |-> last, live |-> {}, buffer |-> buffer]

InitBoot ==
    /\ memory_map \in MemoryMaps
    /\ status = "uninit"
    /\ region_start = 0
    /\ region_end = 0
    /\ max_order = 0
    /\ markers_ptr = 0
    /\ markers = <<>>
    /\ state_tree_ptr = 0
    /\ state_tree = <<>>
    /\ live = {}
    /\ freed = {}
    /\ pc = 1
    /\ in_progress = <<>>
    /\ buffer = NoBuffer
    /\ terminal = NoTerminal
    /\ output = NoOutput
    /\ last = NoCall
    /\ prev = NoCall

\* One call of _start; a panic halts the kernel where it stands.
start_step ==
    /\ pc \in 1 .. Len(_start)
    /\ status # "halted"
    /\ \E size \in BootSizes :
        \E r \in {start_call(_start[pc], size)} :
            /\ status' = r.status
            /\ SetSelf(r.self)
            /\ last' = r.last
            /\ prev' = last
            /\ live' = live \cup r.live
            /\ freed' = freed \ {l.addr : l \in r.live}
            /\ buffer' = r.buffer
            /\ pc' = IF r.status = "halted" THEN pc ELSE pc + 1
    /\ UNCHANGED <<memory_map, terminal, output, in_progress>>

NextBoot == start_step

SpecBoot == InitBoot /\ [][NextBoot]_vars

\* C16: no allocate or free of the start sequence finds the allocator
\* handle unset: frame_allocator::init has completed before the first of
\* them (the back buffer of the framebuffer, the cell buffer of the
\* terminal).
C16_InitBeforeFirstAllocate ==
    last.op \in {"allocate", "free"} => last.err # "FR4"

----------------------------------------------------------------------------
(* C17.  Allocator calls of the kernel and of the interrupt handlers.      *)
(* with_allocator hands out &mut BuddyAllocator from an UnsafeCell and     *)
(* takes no lock; a non-maskable interrupt can arrive between any two      *)
(* instructions of a call, and its handler prints through the terminal,    *)
(* whose buffer grows through the allocator.                               *)

\* The allocator in the middle of allocate_order: the marker is written and
\* mark_subtree has run, update_ancestors has not.
half_allocate(self, r) ==
    [r.self EXCEPT !.state_tree = mark_subtree(self.state_tree, r.block, "Allocated")]

\* The allocator in the middle of free: set_marker_min and mark_subtree
\* have run, update_ancestors has not.
half_free(self, r) ==
    [r.self EXCEPT !.state_tree = mark_subtree(self.state_tree, r.block, "Free")]

\* The record of a call that began.
Frame(op, r) ==
    [op |-> op, block |-> r.block, order |-> r.order, addr |-> r.addr,
     reentered |-> FALSE]

\* frame_allocator::reallocate: allocate the new block, copy, free the old.
reallocate(self, address, new_size) ==
    LET a == allocate(self, new_size) IN
    IF ~a.ok THEN a
    ELSE LET f == free(a.self, address) IN
         [ok |-> f.ok, err |-> f.err, self |-> f.self, addr |-> a.addr,
          block |-> a.block, order |-> a.order]

\* Sizes in bytes of the cell buffer TerminalBuffer::new asks for.
TermSizes == {PAGE_SIZE \div 2, PAGE_SIZE}

\* terminal::init: TerminalBuffer::new allocates the cell buffer.
terminal_init(size) ==
    /\ status = "ready"
    /\ in_progress = <<>>
    /\ buffer = NoBuffer
    /\ terminal = NoTerminal
    /\ output = NoOutput
    /\ \E r \in {allocate(Self, size)} :
        /\ SetSelf(r.self)
        /\ status' = IF r.ok THEN "ready" ELSE "halted"
        /\ last' = Call("allocate", r)
        /\ live' = IF r.ok THEN live \cup {[addr |-> r.addr, order |-> r.order]} ELSE live
        /\ freed' = IF r.ok THEN freed \ {r.addr} ELSE freed
        /\ buffer' = IF r.ok THEN [addr |-> r.addr, size |-> size] ELSE buffer
    /\ prev' = last
    /\ UNCHANGED <<memory_map, terminal, output, pc, in_progress>>

\* The kernel calls allocate: the call runs up to the end of mark_subtree.
begin_allocate(size) ==
    /\ status = "ready"
    /\ in_progress = <<>>
    /\ \E r \in {allocate(Self, size)} :
        IF r.ok
        THEN /\ SetSelf(half_allocate(Self, r))
             /\ in_progress' = <<Frame("allocate", r)>>
             /\ UNCHANGED <<memory_map, terminal, output, status, live, freed, pc, buffer, last, prev>>
        ELSE /\ Finish("allocate", r)
             /\ UNCHANGED <<live, freed>>

\* The kernel calls free on a block it holds: the call runs up to the end
\* of mark_subtree.
begin_free(address) ==
    /\ status = "ready"
    /\ in_progress = <<>>
    /\ address # buffer.addr
    /\ \E r \in {free(Self, address)} :
        IF r.ok
        THEN /\ SetSelf(half_free(Self, r))
             /\ in_progress' = <<Frame("free", r)>>
             /\ UNCHANGED <<memory_map, terminal, output, status, live, freed, pc, buffer, last, prev>>
        ELSE /\ Finish("free", r)
             /\ UNCHANGED <<live, freed>>

\* The call in progress runs update_ancestors and returns.
complete ==
    /\ status = "ready"
    /\ in_progress # <<>>
    /\ LET f == in_progress[1] IN
        /\ SetSelf([Self EXCEPT !.state_tree = update_ancestors(@, f.block)])
        /\ last' = [op |-> f.op, ok |-> TRUE, err |-> "", order |-> f.order,
                    block |-> f.block, addr |-> f.addr]
        /\ live' = IF f.op = "allocate"
                   THEN live \cup {[addr |-> f.addr, order |-> f.order]}
                   ELSE {l \in live : l.addr # f.addr}
        /\ freed' = IF f.op = "allocate" THEN freed \ {f.addr} ELSE freed \cup {f.addr}
    /\ prev' = last
    /\ in_progress' = <<>>
    /\ UNCHANGED <<memory_map, terminal, output, status, pc, buffer>>

\* non_maskable_interrupt_handler: println! writes to the terminal; when the
\* text reaches the end of the cell buffer, grow_buffer doubles it through
\* frame_allocator::reallocate.  The handler runs whatever the kernel was
\* doing when the interrupt arrived.
non_maskable_interrupt_handler ==
    /\ status = "ready"
    /\ buffer # NoBuffer
    /\ \E r \in {reallocate(Self, buffer.addr, 2 * buffer.size)} :
        /\ SetSelf(r.self)
        /\ status' = IF r.ok THEN "ready" ELSE "halted"
        /\ last' = Call("reallocate", r)
        /\ buffer' = IF r.ok THEN [addr |-> r.addr, size |-> 2 * buffer.size] ELSE buffer
        /\ live' = IF r.ok
                   THEN {l \in live : l.addr # buffer.addr}
                            \cup {[addr |-> r.addr, order |-> r.order]}
                   ELSE live
        /\ freed' = IF r.ok THEN (freed \cup {buffer.addr}) \ {r.addr} ELSE freed
    /\ prev' = last
    /\ in_progress' = [i \in DOMAIN in_progress |->
                          [in_progress[i] EXCEPT !.reentered = TRUE]]
    /\ UNCHANGED <<memory_map, terminal, output, pc>>

NextIrq ==
    \/ init
    \/ \E size \in TermSizes : terminal_init(size)
    \/ \E size \in Sizes : begin_allocate(size)
    \/ \E l \in live : begin_free(l.addr)
    \/ complete
    \/ non_maskable_interrupt_handler

SpecIrq == Init /\ [][NextIrq]_vars

\* C17: allocator calls are serialized: while an allocate or free is in
\* progress no other allocator call begins, the calls made from an
\* interrupt handler's output path included.
C17_Serialized ==
    \A i \in DOMAIN in_progress : ~in_progress[i].reentered

----------------------------------------------------------------------------
(* C18.  Reserved cells.                                                    *)

\* C18: once the allocator is built, no allocate, allocate_exact or free
\* call changes the state of a Reserved cell, and none makes a cell that is
\* not Reserved Reserved.
C18_ReservedIsPermanent ==
    [][status = "ready" =>
          \A i \in DOMAIN state_tree :
              (state_tree[i] = "Reserved") <=> (state_tree'[i] = "Reserved")]_vars

\* A block whose buddy is a Reserved leaf was allocated and then freed.
C18_Witness ==
    /\ status = "ready"
    /\ last.op = "free" /\ last.ok
    /\ prev.op = "allocate" /\ prev.ok
    /\ last.block > 1
    /\ state_tree[buddy(last.block)] = "Reserved"
    /\ state_tree[last.block] = "Free"

----------------------------------------------------------------------------
(* C19.  The subtree-mark invariant.                                        *)

\* C19: in every state reached through init and allocate, allocate_exact
\* and free calls that respect their preconditions, every non-leaf cell
\* that is Allocated has both children Allocated.
C19_SubtreeMark ==
    status = "ready" =>
        \A p \in 1 .. Pow2(max_order) - 1 :
            state_tree[p] = "Allocated" =>
                /\ state_tree[2 * p] = "Allocated"
                /\ state_tree[2 * p + 1] = "Allocated"

\* A block above the leaves was allocated after an earlier block was freed.
C19_Witness ==
    /\ status = "ready"
    /\ last.op = "allocate" /\ last.ok /\ last.order < max_order
    /\ state_tree[last.block] = "Allocated"
    /\ prev.op = "free" /\ prev.ok

----------------------------------------------------------------------------
(* C20.  Marker monotonicity.                                               *)

\* C20: an allocation at order k never decreases markers[k] and changes no
\* other marker; a free of the block of order k with index i leaves
\* markers[k] <= i and changes no other marker.
C20_MarkerMonotonicity ==
    [][status = "ready" /\ last'.ok =>
          /\ last'.op = "allocate" =>
                /\ markers'[last'.order] >= markers[last'.order]
                /\ \A j \in DOMAIN markers \ {last'.order} : markers'[j] = markers[j]
          /\ last'.op = "free" =>
                /\ markers'[last'.order] <= last'.block
                /\ \A j \in DOMAIN markers \ {last'.order} : markers'[j] = markers[j]]_vars

\* A free lowered the marker of its order to the freed block, after an
\* allocation at another order had moved that order's marker past its block.
C20_Witness ==
    /\ status = "ready"
    /\ last.op = "free" /\ last.ok
    /\ markers[last.order] = last.block
    /\ prev.op = "allocate" /\ prev.ok
    /\ prev.order # last.order
    /\ markers[prev.order] = prev.block + 1

----------------------------------------------------------------------------
(* C21.  Errors of the constructor.  The metadata of a region of more than *)
(* 1024 pages no longer fits a one-page entry, so the memory maps here add *)
(* sparse maps: short entries that lie FarPage pages apart.                *)

SparseEntries ==
    {[base |-> b * PAGE_SIZE, length |-> l * PAGE_SIZE, entry_type |-> "USABLE"] :
        <<b, l>> \in {0, FarPage, 2 * FarPage} \X {1, 2}}

SparseMaps == {mm \in [1 .. 2 -> SparseEntries] : WellFormed(mm)}

InitCtor ==
    /\ memory_map \in MemoryMaps \cup SparseMaps
    /\ status = "uninit"
    /\ region_start = 0
    /\ region_end = 0
    /\ max_order = 0
    /\ markers_ptr = 0
    /\ markers = <<>>
    /\ state_tree_ptr = 0
    /\ state_tree = <<>>
    /\ live = {}
    /\ freed = {}
    /\ pc = 0
    /\ in_progress = <<>>
    /\ buffer = NoBuffer
    /\ terminal = NoTerminal
    /\ output = NoOutput
    /\ last = NoCall
    /\ prev = NoCall

NextCtor == init

SpecCtor == InitCtor /\ [][NextCtor]_vars

\* The size in bytes of markers and state tree for the usable entries.
total_size(usable) ==
    LET order == max_order_for_usable_region(
                     usable[1].base, usable[Len(usable)].base + usable[Len(usable)].length)
    IN size_of_markers_for_order(order) + size_of_tree_for_order(order)

\* C21: new_embedded returns NoUsableMemory when the memory map has no
\* USABLE entry, NotEnoughAvailableMemory when no USABLE entry is as long as
\* markers and state tree together, and otherwise places the markers, then
\* the state tree, at the base of the first USABLE entry that is long enough.
C21_ConstructorErrors ==
    last.op = "init" =>
        LET usable == usable_entries(memory_map) IN
        IF Len(usable) = 0 THEN last.err = "NoUsableMemory"
        ELSE LET fits == {i \in 1 .. Len(usable) : usable[i].length >= total_size(usable)} IN
             IF fits = {} THEN last.err = "NotEnoughAvailableMemory"
             ELSE LET first == CHOOSE i \in fits : \A j \in fits : i <= j IN
                  /\ last.err \notin {"NoUsableMemory", "NotEnoughAvailableMemory"}
                  /\ markers_ptr = usable[first].base
                  /\ state_tree_ptr = markers_ptr + size_of_markers_for_order(max_order)

\* The first USABLE entry was too short and the metadata went to the second.
C21_Witness ==
    /\ last.op = "init"
    /\ last.err \notin {"NoUsableMemory", "NotEnoughAvailableMemory"}
    /\ Len(usable_entries(memory_map)) = 2
    /\ markers_ptr = usable_entries(memory_map)[2].base

----------------------------------------------------------------------------
(* C30.  Live blocks.                                                       *)

\* C30: after any sequence of allocate, allocate_exact and free calls that
\* respect their preconditions, the byte ranges of any two blocks returned
\* and not yet freed are disjoint.
C30_LiveBlocksDisjoint ==
    status # "uninit" =>
        \A a, b \in live :
            a # b => ~Overlap(a.addr, size_for_order(Self, a.order),
                              b.addr, size_for_order(Self, b.order))

\* Three blocks are live, two of them of different orders, and the last
\* one was allocated after a free.
C30_Witness ==
    /\ status = "ready"
    /\ Cardinality(live) >= 3
    /\ \E a, b \in live : a.order # b.order
    /\ last.op = "allocate" /\ last.ok
    /\ prev.op = "free" /\ prev.ok

----------------------------------------------------------------------------
(* The ANSI CSI decoder (terminal/ansi.rs).  A character is its code       *)
(* point; a string is a sequence of characters.                            *)

ESC == 27
BRACKET == 91
\* ';', the separator of parameters in parse_final
SEMICOLON == 59

PARAM_RANGE == 48 .. 63
INTERMEDIATE_RANGE == 32 .. 47
FINAL_RANGE == 64 .. 127

BUFFER_SIZE == 20

\* i32::MAX, the largest value str::parse::<i32> accepts
I32_MAX == 2147483647

\* AnsiStage::in_char_range
in_char_range(stage, ch) ==
    CASE stage = "Escape" -> ch = ESC
      [] stage = "CtrlSequenceIdentifier" -> ch = BRACKET
      [] stage = "Parameters" -> ch \in PARAM_RANGE
      [] stage = "Intermediate" -> ch \in INTERMEDIATE_RANGE
      [] stage = "Final" -> ch \in FINAL_RANGE

\* AnsiStage::next; None for Final
next(stage) ==
    CASE stage = "Escape" -> "CtrlSequenceIdentifier"
      [] stage = "CtrlSequenceIdentifier" -> "Parameters"
      [] stage = "Parameters" -> "Intermediate"
      [] stage = "Intermediate" -> "Final"
      [] stage = "Final" -> "None"

\* AnsiHandler::new; `buffer` holds the bytes before the trailing zeros
AnsiHandler_new == [buffer |-> <<>>, ptr |-> 0, stage |-> "Escape"]

\* AnsiColor
ColorCode(code) == [kind |-> "ColorCode", r |-> code, g |-> 0, b |-> 0]
Rgb(r, g, b) == [kind |-> "Rgb", r |-> r, g |-> g, b |-> b]
DefaultForeground == [kind |-> "DefaultForeground", r |-> 0, g |-> 0, b |-> 0]
DefaultBackground == [kind |-> "DefaultBackground", r |-> 0, g |-> 0, b |-> 0]

\* AnsiCommand: `type` names the variant, the fields a variant has not are 0
\* or "".
AnsiCommand(type) ==
    [type |-> type, line |-> 0, column |-> 0, delta |-> 0, mode |-> "",
     preserve_offscreen |-> FALSE, color |-> DefaultForeground]

\* Result<AnsiCommand, AnsiError>, and the panic of an unwrap on the way
Ok(command) == [kind |-> "Valid", command |-> command, error |-> ""]
Err(error) == [kind |-> "Error", command |-> AnsiCommand("None"), error |-> error]
Unwrap == [kind |-> "Panic", command |-> AnsiCommand("None"), error |-> "unwrap"]
Incomplete == [kind |-> "Incomplete", command |-> AnsiCommand("None"), error |-> ""]

\* u8::try_from(i32).is_ok()
is_u8(v) == v >= 0 /\ v <= 255

\* str::parse::<i32> of a non-empty part of the parameters: the value, or
\* -1 for the ParseIntError of a character that is no digit or of a value
\* above i32::MAX.
RECURSIVE parse_digits(_, _)
parse_digits(part, acc) ==
    IF part = <<>> THEN acc
    ELSE LET d == Head(part) - 48 IN
         IF d < 0 \/ d > 9 THEN -1
         ELSE IF acc > (I32_MAX - d) \div 10 THEN -1
         ELSE parse_digits(Tail(part), 10 * acc + d)

parse(part) == parse_digits(part, 0)

\* str::split(';'): the parts between the separators, the empty ones too
RECURSIVE split(_, _)
split(str, part) ==
    IF str = <<>> THEN <<part>>
    ELSE IF Head(str) = SEMICOLON THEN <<part>> \o split(Tail(str), <<>>)
    ELSE split(Tail(str), Append(part, Head(str)))

\* The loop of parse_final over the parts: the parameters read so far, with
\* err "Unsupported" at a sixth part and "unwrap" at a part that does not
\* parse.
RECURSIVE parse_params(_, _)
parse_params(parts, params) ==
    IF parts = <<>> THEN [err |-> "", params |-> params]
    ELSE IF Len(params) = 5 THEN [err |-> "Unsupported", params |-> params]
    ELSE IF Head(parts) = <<>> THEN parse_params(Tail(parts), Append(params, 0))
    ELSE LET v == parse(Head(parts)) IN
         IF v < 0 THEN [err |-> "unwrap", params |-> params]
         ELSE parse_params(Tail(parts), Append(params, v))

\* params[i] of the array [0; 5] the parameters are read into
Param(params, i) == IF i + 1 <= Len(params) THEN params[i + 1] ELSE 0

parse_rgb_sgr(zone, r, g, b) ==
    IF ~is_u8(r) \/ ~is_u8(g) \/ ~is_u8(b) THEN Err("InvalidParameters")
    ELSE IF zone = 38 THEN Ok([AnsiCommand("SetForeground") EXCEPT !.color = Rgb(r, g, b)])
    ELSE IF zone = 48 THEN Ok([AnsiCommand("SetBackground") EXCEPT !.color = Rgb(r, g, b)])
    ELSE Err("InvalidParameters")

\* The 6 x 6 x 6 colour cube of parse_256_sgr
CubeMap == <<0, 95, 135, 175, 215, 255>>

parse_256_sgr(zone, color_code) ==
    IF ~is_u8(color_code) THEN Err("InvalidParameters")
    ELSE LET color ==
                 IF color_code < 16 THEN ColorCode(color_code)
                 ELSE IF color_code < 232
                 THEN LET val == color_code - 16 IN
                      Rgb(CubeMap[(val \div 36) + 1], CubeMap[((val \div 6) % 6) + 1],
                          CubeMap[(val % 6) + 1])
                 ELSE LET l == 8 + (color_code - 232) * 10 IN Rgb(l, l, l)
         IN IF zone = 38 THEN Ok([AnsiCommand("SetForeground") EXCEPT !.color = color])
            ELSE IF zone = 48 THEN Ok([AnsiCommand("SetBackground") EXCEPT !.color = color])
            ELSE Err("InvalidParameters")

parse_16_sgr(color_code) ==
    IF ~is_u8(color_code) THEN Err("InvalidParameters")
    ELSE IF color_code = 0 THEN Ok(AnsiCommand("ResetGraphicRendition"))
    ELSE IF color_code \in 30 .. 37
    THEN Ok([AnsiCommand("SetForeground") EXCEPT !.color = ColorCode(color_code - 30)])
    ELSE IF color_code \in 40 .. 47
    THEN Ok([AnsiCommand("SetBackground") EXCEPT !.color = ColorCode(color_code - 40)])
    ELSE IF color_code \in 90 .. 97
    THEN Ok([AnsiCommand("SetForeground") EXCEPT !.color = ColorCode(color_code - 90 + 8)])
    ELSE IF color_code \in 100 .. 107
    THEN Ok([AnsiCommand("SetBackground") EXCEPT !.color = ColorCode(color_code - 100 + 8)])
    ELSE Err("InvalidParameters")

parse_sgr(n_params, params) ==
    IF n_params = 0 THEN Ok(AnsiCommand("ResetGraphicRendition"))
    ELSE IF Param(params, 1) = 2 /\ n_params \in {4, 5}
    THEN parse_rgb_sgr(Param(params, 0), Param(params, 2), Param(params, 3), Param(params, 4))
    ELSE IF Param(params, 1) = 5 /\ n_params \in {2, 3}
    THEN parse_256_sgr(Param(params, 0), Param(params, 2))
    ELSE IF n_params = 1 THEN parse_16_sgr(Param(params, 0))
    ELSE Err("InvalidParameters")

parse_erase_display(n_params, params) ==
    IF n_params > 1 THEN Err("InvalidParameters")
    ELSE CASE Param(params, 0) = 0 ->
                Ok([AnsiCommand("EraseDisplay") EXCEPT !.mode = "AfterCursor",
                                                      !.preserve_offscreen = TRUE])
           [] Param(params, 0) = 1 ->
                Ok([AnsiCommand("EraseDisplay") EXCEPT !.mode = "BeforeCursor",
                                                      !.preserve_offscreen = TRUE])
           [] Param(params, 0) = 2 ->
                Ok([AnsiCommand("EraseDisplay") EXCEPT !.mode = "All",
                                                      !.preserve_offscreen = TRUE])
           [] Param(params, 0) = 3 ->
                Ok([AnsiCommand("EraseDisplay") EXCEPT !.mode = "All",
                                                      !.preserve_offscreen = FALSE])
           [] OTHER -> Err("InvalidParameters")

parse_erase_line(n_params, params) ==
    IF n_params > 1 THEN Err("InvalidParameters")
    ELSE CASE Param(params, 0) = 0 -> Ok([AnsiCommand("EraseLine") EXCEPT !.mode = "AfterCursor"])
           [] Param(params, 0) = 1 -> Ok([AnsiCommand("EraseLine") EXCEPT !.mode = "BeforeCursor"])
           [] Param(params, 0) = 2 -> Ok([AnsiCommand("EraseLine") EXCEPT !.mode = "All"])
           [] OTHER -> Err("InvalidParameters")

parse_move_cursor_relative(n_params, params, direction) ==
    IF n_params > 1 THEN Err("InvalidParameters")
    ELSE LET distance == Param(params, 0) IN
         CASE direction = "Up" ->
                Ok([AnsiCommand("CursorMoveRelative") EXCEPT !.line = -distance])
           [] direction = "Down" ->
                Ok([AnsiCommand("CursorMoveRelative") EXCEPT !.line = distance])
           [] direction = "Left" ->
                Ok([AnsiCommand("CursorMoveRelative") EXCEPT !.column = -distance])
           [] direction = "Right" ->
                Ok([AnsiCommand("CursorMoveRelative") EXCEPT !.column = distance])

parse_move_cursor_absolute(n_params, params) ==
    IF n_params > 2 THEN Err("Unsupported")
    ELSE Ok([AnsiCommand("CursorMoveAbsolute") EXCEPT !.line = Param(params, 0),
                                                      !.column = Param(params, 1)])

parse_move_cursor_column(n_params, params) ==
    IF n_params > 1 THEN Err("InvalidParameters")
    ELSE Ok([AnsiCommand("CursorMoveColumnAbsolute") EXCEPT !.column = Param(params, 0)])

parse_scroll(n_params, params, direction) ==
    IF n_params > 1 THEN Err("InvalidParameters")
    ELSE LET distance == IF n_params = 0 THEN 1 ELSE Param(params, 0) IN
         CASE direction = "Up" -> Ok([AnsiCommand("ScrollRelative") EXCEPT !.delta = -distance])
           [] direction = "Down" -> Ok([AnsiCommand("ScrollRelative") EXCEPT !.delta = distance])
           [] OTHER -> Err("InvalidParameters")

\* The characters 'A' .. 'T', 'f' and 'm' that parse_final dispatches on
FinalChar(name) ==
    CASE name = "A" -> 65 [] name = "B" -> 66 [] name = "C" -> 67 [] name = "D" -> 68
      [] name = "G" -> 71 [] name = "H" -> 72 [] name = "J" -> 74 [] name = "K" -> 75
      [] name = "S" -> 83 [] name = "T" -> 84 [] name = "f" -> 102 [] name = "m" -> 109

\* The head of parse_final: the parameters read from the buffer, none for an
\* empty buffer.
read_params(str) ==
    IF str = <<>> THEN [err |-> "", params |-> <<>>]
    ELSE parse_params(split(str, <<>>), <<>>)

\* AnsiHandler::parse_final
parse_final(self, final_char) ==
    LET read == read_params(self.buffer)
        n_params == Len(read.params)
        params == read.params
    IN IF read.err = "unwrap" THEN Unwrap
       ELSE IF read.err # "" THEN Err(read.err)
       ELSE CASE final_char = FinalChar("m") -> parse_sgr(n_params, params)
              [] final_char = FinalChar("J") -> parse_erase_display(n_params, params)
              [] final_char = FinalChar("K") -> parse_erase_line(n_params, params)
              [] final_char = FinalChar("A") -> parse_move_cursor_relative(n_params, params, "Up")
              [] final_char = FinalChar("B") -> parse_move_cursor_relative(n_params, params, "Down")
              [] final_char = FinalChar("C") -> parse_move_cursor_relative(n_params, params, "Right")
              [] final_char = FinalChar("D") -> parse_move_cursor_relative(n_params, params, "Left")
              [] final_char \in {FinalChar("H"), FinalChar("f")} ->
                    parse_move_cursor_absolute(n_params, params)
              [] final_char = FinalChar("G") -> parse_move_cursor_column(n_params, params)
              [] final_char = FinalChar("S") -> parse_scroll(n_params, params, "Up")
              [] final_char = FinalChar("T") -> parse_scroll(n_params, params, "Down")
              [] OTHER -> Err("Unsupported")

\* What continue_parse returns, the handler it leaves and the characters it
\* did not take from the iterator.
Parsed(result, self, rest) == [result |-> result, self |-> self, rest |-> rest]

\* AnsiHandler::continue_parse
RECURSIVE continue_parse(_, _)
continue_parse(self, s) ==
    IF s = <<>> THEN Parsed(Incomplete, self, s)
    ELSE LET ch == Head(s) IN
         CASE self.stage \in {"Escape", "CtrlSequenceIdentifier", "Final"} ->
                IF in_char_range(self.stage, ch)
                THEN IF next(self.stage) # "None"
                     THEN continue_parse([self EXCEPT !.stage = next(@)], Tail(s))
                     ELSE Parsed(parse_final(self, ch), self, Tail(s))
                ELSE Parsed(Err("Unsupported"), self, Tail(s))
           [] self.stage = "Parameters" ->
                IF in_char_range(self.stage, ch)
                THEN IF self.ptr + 1 = BUFFER_SIZE
                     THEN Parsed(Err("BufferOverflow"), self, Tail(s))
                     ELSE continue_parse([self EXCEPT !.buffer = Append(@, ch), !.ptr = @ + 1],
                                         Tail(s))
                ELSE continue_parse([self EXCEPT !.stage = next(@)], s)
           [] self.stage = "Intermediate" ->
                IF in_char_range(self.stage, ch)
                THEN Parsed(Err("Unsupported"), self, Tail(s))
                ELSE continue_parse([self EXCEPT !.stage = next(@)], s)

\* AnsiHandler::is_active
is_active(self) == self.stage # "Escape"

\* AnsiHandler::reset
reset(self) == [buffer |-> <<>>, ptr |-> 0, stage |-> "Escape"]

\* try_start that starts over whatever stage the decoder is in
try_start_restarts(self) == [self EXCEPT !.stage = "CtrlSequenceIdentifier"]

\* AnsiHandler::try_start
try_start(self) ==
    IF self.stage = "Escape" THEN [self EXCEPT !.stage = "CtrlSequenceIdentifier"] ELSE self

----------------------------------------------------------------------------
(* The terminal (terminal/tty.rs).  The cells of the TerminalBuffer are a  *)
(* function from the indices that hold Some(TextCell) to the cell; `len`   *)
(* is buffer.len().  The pixels that line_draw, scroll_draw and full_draw  *)
(* put into the framebuffer are left out; the cells they read through      *)
(* get_view and the calls of scroll_draw are kept.                         *)

\* '\n', '\t' and ' '
NEWLINE == 10
TAB == 9
SPACE == 32

\* Lines of the buffer per line of the screen, Terminal::new
LinesPerRow == 30

\* size_of::<Option<TextCell>>(): two AnsiColor of 4 bytes and a char
CellSize == 12

\* Pos::origin
origin == [line |-> 0, column |-> 0]

\* Style::default
Style_default == [foreground |-> DefaultForeground, background |-> DefaultBackground]

\* TerminalBuffer::new, the allocation of the cells apart
TerminalBuffer_new(lines, columns) ==
    [max_lines |-> lines, max_columns |-> columns, cells |-> <<>>,
     len |-> lines * columns, end_ptr |-> 0]

\* Terminal::new, the allocation of the cells apart
Terminal_new(height, width) ==
    [width |-> width, height |-> height, cursor |-> origin, scroll |-> 0,
     buffer |-> TerminalBuffer_new(height * LinesPerRow, width),
     ansi_handler |-> AnsiHandler_new, style |-> Style_default]

\* The locks the writer of the terminal holds when write_str begins:
\* callers acquire the terminal's lock before use, and no other.
Writer == {"terminal"}

\* A write in progress: the terminal, the allocator and the block that
\* holds the cells, the panic that stopped the write ("" while it runs), the
\* calls of scroll_draw so far, whether the build checks integer
\* overflow (debug) or wraps (release), the locks held, and the locks that
\* were held at each call of grow_buffer.
Run(self, allocator, mem, blocks, panic, draws, overflow_checks) ==
    [self |-> self, allocator |-> allocator, mem |-> mem, live |-> blocks,
     panic |-> panic, scroll_draw |-> draws, overflow_checks |-> overflow_checks,
     locks |-> Writer, grown |-> <<>>]

\* panic!, todo!, a failed unwrap or an index out of bounds
Halt(run, reason) == IF run.panic = "" THEN [run EXCEPT !.panic = reason] ELSE run

\* buffer[pos] = Some(cell)
set_cell(buf, pos, cell) ==
    [buf EXCEPT !.cells = [i \in DOMAIN buf.cells \cup {pos} |->
                              IF i = pos THEN cell ELSE buf.cells[i]]]

\* grow_buffer without its last statement, self.max_lines *= 2
grow_buffer_same_lines(run) ==
    LET r == reallocate(run.allocator, run.mem.addr, 2 * run.mem.size) IN
    IF ~r.ok THEN Halt([run EXCEPT !.allocator = r.self], r.err)
    ELSE [run EXCEPT !.allocator = r.self,
                     !.mem = [addr |-> r.addr, size |-> 2 * run.mem.size],
                     !.live = {l \in run.live : l.addr # run.mem.addr}
                                  \cup {[addr |-> r.addr, order |-> r.order]},
                     !.self.buffer.len = 2 * @,
                     !.grown = Append(@, run.locks)]

\* TerminalBuffer::grow_buffer: the cells move to a block of twice the size
\* and max_lines doubles.
grow_buffer(run) ==
    LET r == reallocate(run.allocator, run.mem.addr, 2 * run.mem.size) IN
    IF ~r.ok THEN Halt([run EXCEPT !.allocator = r.self], r.err)
    ELSE [run EXCEPT !.allocator = r.self,
                     !.mem = [addr |-> r.addr, size |-> 2 * run.mem.size],
                     !.live = {l \in run.live : l.addr # run.mem.addr}
                                  \cup {[addr |-> r.addr, order |-> r.order]},
                     !.self.buffer.len = 2 * @,
                     !.self.buffer.max_lines = 2 * @,
                     !.grown = Append(@, run.locks)]

\* write_char that writes every cell in the default style
write_char_default_style(run, ch, line, column, style) ==
    LET pos == line * run.self.buffer.max_columns + column IN
    CHOOSE done \in
        {IF grown.panic # "" THEN grown
         ELSE IF pos >= grown.self.buffer.len THEN Halt(grown, "bounds")
         ELSE [grown EXCEPT !.self.buffer =
                  set_cell(@, pos, [style |-> Style_default, content |-> ch])] :
            grown \in {IF pos + 1 >= run.self.buffer.len THEN grow_buffer(run) ELSE run}} :
        TRUE

\* TerminalBuffer::write_char
write_char(run, ch, line, column, style) ==
    LET pos == line * run.self.buffer.max_columns + column IN
    \* the set binds the run after the growth once
    CHOOSE done \in
        {IF grown.panic # "" THEN grown
         ELSE IF pos >= grown.self.buffer.len THEN Halt(grown, "bounds")
         ELSE [grown EXCEPT !.self.buffer =
                  set_cell(@, pos, [style |-> style, content |-> ch])] :
            grown \in {IF pos + 1 >= run.self.buffer.len THEN grow_buffer(run) ELSE run}} :
        TRUE

\* The loop of write_formatted: [run, offset] after the characters of text.
RECURSIVE write_cells(_, _, _, _, _)
write_cells(run, text, ptr, offset, style) ==
    IF text = <<>> \/ run.panic # "" THEN [run |-> run, offset |-> offset]
    ELSE CHOOSE done \in
            {write_cells(
                 IF grown.panic # "" THEN grown
                 ELSE IF ptr + offset >= grown.self.buffer.len THEN Halt(grown, "bounds")
                 ELSE [grown EXCEPT !.self.buffer =
                          set_cell(@, ptr + offset, [style |-> style, content |-> Head(text)])],
                 Tail(text), ptr, offset + 1, style) :
                grown \in {IF ptr + offset + 1 = run.self.buffer.len
                           THEN grow_buffer(run) ELSE run}} :
            TRUE

\* TerminalBuffer::write_formatted: the run and the number of cells written
write_formatted(run, text, line, column, style) ==
    LET ptr == line * run.self.buffer.max_columns + column IN
    CHOOSE done \in
        {[run |-> IF w.run.panic = "" /\ ptr + w.offset > w.run.self.buffer.end_ptr
                  THEN [w.run EXCEPT !.self.buffer.end_ptr = ptr]
                  ELSE w.run,
          offset |-> w.offset] :
            w \in {write_cells(run, text, ptr, 0, style)}} :
        TRUE

\* The slice buffer[from .. to) exists.
InBounds(buf, from, to) == from <= to /\ to <= buf.len

\* TerminalBuffer::get_line_length, for a line inside the buffer
get_line_length(buf, line) ==
    LET filled == {i \in 0 .. buf.max_columns - 1 :
                      (line * buf.max_columns + i) \in DOMAIN buf.cells}
    IN IF filled = {} THEN 0
       ELSE (CHOOSE i \in filled : \A j \in filled : j <= i) + 1

\* The slice of get_line_length exists.
line_in_bounds(buf, line) ==
    InBounds(buf, line * buf.max_columns, (line + 1) * buf.max_columns)

\* TerminalBuffer::get_view: whether the slice exists
get_view(buf, start_line, height) ==
    InBounds(buf, start_line * buf.max_columns, (start_line + height) * buf.max_columns)

\* FramebufferDriver::device: the spin lock of the framebuffer, which never
\* returns to a caller that holds it already
device(run) ==
    IF "framebuffer" \in run.locks THEN Halt(run, "deadlock")
    ELSE [run EXCEPT !.locks = @ \cup {"framebuffer"}]

\* The guard fb goes out of scope at the end of a draw.
drop(fb) == [fb EXCEPT !.locks = @ \ {"framebuffer"}]

\* Terminal::full_draw
full_draw(run) ==
    IF ~get_view(run.self.buffer, run.self.scroll, run.self.height)
    THEN Halt(run, "bounds")
    ELSE LET fb == device(run) IN
         IF fb.panic # run.panic THEN fb ELSE drop(fb)

\* line_draw that returns with the guard of the framebuffer alive
line_draw_keeps_device(run, line) ==
    IF line >= run.self.buffer.max_lines THEN run
    ELSE IF ~get_view(run.self.buffer, line, 1) THEN Halt(run, "bounds")
    ELSE LET fb == device(run) IN
         IF fb.panic # run.panic THEN fb
         ELSE IF line < run.self.scroll /\ run.overflow_checks THEN Halt(fb, "overflow")
         ELSE fb

\* Terminal::line_draw; line - scroll is a usize subtraction, which panics
\* below zero in a build with overflow checks; the pixels are not modelled.
line_draw(run, line) ==
    IF line >= run.self.buffer.max_lines THEN run
    ELSE IF ~get_view(run.self.buffer, line, 1) THEN Halt(run, "bounds")
    ELSE LET fb == device(run) IN
         IF fb.panic # run.panic THEN fb
         ELSE IF line < run.self.scroll /\ run.overflow_checks THEN Halt(fb, "overflow")
         ELSE drop(fb)

\* Terminal::scroll_draw
scroll_draw(run, scroll_delta, clear_scroll) ==
    LET fb == device(run) IN
    IF fb.panic # run.panic THEN fb
    ELSE drop([fb EXCEPT !.scroll_draw =
                  Append(@, [scroll_delta |-> scroll_delta, clear_scroll |-> clear_scroll])])

\* Terminal::advance_cursor_wrapping
advance_cursor_wrapping(run, len) ==
    IF run.panic # "" THEN run
    ELSE
    LET self == run.self
        new_col_with_overflow == self.cursor.column + len
        cursor_delta == new_col_with_overflow \div self.buffer.max_columns
        moved == [self EXCEPT !.cursor.column = new_col_with_overflow % self.buffer.max_columns,
                              !.cursor.line = @ + cursor_delta]
        scrolled ==
            IF moved.cursor.line > moved.scroll + moved.height
            THEN scroll_draw([run EXCEPT !.self =
                                 [moved EXCEPT !.scroll = moved.cursor.line - moved.height]],
                             moved.cursor.line - moved.height - moved.scroll, FALSE)
            ELSE [run EXCEPT !.self = moved]
    IN IF cursor_delta # 0
       THEN line_draw(scrolled, moved.cursor.line - cursor_delta)
       ELSE scrolled

\* Terminal::send_to_buffer
send_to_buffer(run, text) ==
    IF run.panic # "" THEN run
    ELSE CHOOSE done \in
            {advance_cursor_wrapping(w.run, w.offset) :
                w \in {write_formatted(run, text, run.self.cursor.line,
                                       run.self.cursor.column, run.self.style)}} :
            TRUE

\* Terminal::send_char_to_buffer
send_char_to_buffer(run, ch) ==
    IF run.panic # "" THEN run
    ELSE CHOOSE done \in
            {advance_cursor_wrapping(w, 1) :
                w \in {write_char(run, ch, run.self.cursor.line, run.self.cursor.column,
                                  run.self.style)}} :
            TRUE

\* jump_line that scrolls as soon as the cursor leaves the last line of the
\* screen
jump_line_scrolls_early(run) ==
    IF run.panic # "" THEN run
    ELSE
    LET moved == [run.self EXCEPT !.cursor.column = 0, !.cursor.line = @ + 1] IN
    IF moved.cursor.line - moved.scroll >= moved.height
    THEN line_draw(scroll_draw([run EXCEPT !.self = [moved EXCEPT !.scroll = @ + 1]], 1, FALSE),
                   moved.cursor.line - 1)
    ELSE line_draw([run EXCEPT !.self = moved], moved.cursor.line - 1)

\* Terminal::jump_line; cursor.line - scroll is a usize subtraction, which
\* panics below zero in a build with overflow checks and wraps to a value
\* above height in a build without.
jump_line(run) ==
    IF run.panic # "" THEN run
    ELSE
    LET moved == [run.self EXCEPT !.cursor.column = 0, !.cursor.line = @ + 1] IN
    IF moved.cursor.line < moved.scroll /\ run.overflow_checks
    THEN Halt([run EXCEPT !.self = moved], "overflow")
    ELSE IF moved.cursor.line < moved.scroll \/ moved.cursor.line - moved.scroll > moved.height
    THEN line_draw(scroll_draw([run EXCEPT !.self = [moved EXCEPT !.scroll = @ + 1]], 1, FALSE),
                   moved.cursor.line - 1)
    ELSE line_draw([run EXCEPT !.self = moved], moved.cursor.line - 1)

\* usize::saturating_add_signed, for values far below usize::MAX
saturating_add_signed(v, delta) == IF v + delta < 0 THEN 0 ELSE v + delta

\* usize::min
min(a, b) == IF a < b THEN a ELSE b

\* Terminal::move_cursor_absolute
move_cursor_absolute(run, line, column) ==
    LET self == run.self
        new_line == clamp(self.scroll + line, self.scroll, self.scroll + self.height)
    IN IF ~line_in_bounds(self.buffer, new_line)
       THEN Halt([run EXCEPT !.self.cursor.line = new_line], "bounds")
       ELSE [run EXCEPT !.self.cursor =
                [line |-> new_line,
                 column |-> clamp(column, 0, get_line_length(self.buffer, new_line))]]

\* Terminal::move_cursor_relative
move_cursor_relative(run, line_delta, column_delta) ==
    LET self == run.self
        new_line == min(saturating_add_signed(self.cursor.line, line_delta),
                        self.buffer.max_lines)
    IN IF ~line_in_bounds(self.buffer, new_line)
       THEN Halt([run EXCEPT !.self.cursor.line = new_line], "bounds")
       ELSE [run EXCEPT !.self.cursor =
                [line |-> new_line,
                 column |-> min(saturating_add_signed(self.cursor.column, column_delta),
                                get_line_length(self.buffer, new_line))]]

\* Terminal::scroll_relative
scroll_relative(run, delta) ==
    full_draw([run EXCEPT !.self.scroll =
                  min(saturating_add_signed(@, delta), run.self.buffer.max_lines)])

\* Terminal::set_background
set_background(run, color) == [run EXCEPT !.self.style.background = color]

\* Terminal::set_foreground
set_foreground(run, color) == [run EXCEPT !.self.style.foreground = color]

\* Terminal::reset_style
reset_style(run) == [run EXCEPT !.self.style = Style_default]

\* Terminal::execute_ansi_command
execute_ansi_command(run, command) ==
    CASE command.type = "CursorMoveAbsolute" ->
            move_cursor_absolute(run, command.line, command.column)
      [] command.type = "CursorMoveRelative" ->
            move_cursor_relative(run, command.line, command.column)
      [] command.type = "CursorMoveColumnAbsolute" ->
            move_cursor_absolute(run, run.self.cursor.line, command.column)
      [] command.type = "EraseDisplay" -> Halt(run, "todo")
      [] command.type = "EraseLine" -> Halt(run, "todo")
      [] command.type = "ScrollRelative" -> scroll_relative(run, command.delta)
      [] command.type = "SetBackground" -> set_background(run, command.color)
      [] command.type = "SetForeground" -> set_foreground(run, command.color)
      [] command.type = "ResetGraphicRendition" -> reset_style(run)

\* Terminal::parse_ansi: the run, and the characters the decoder left
parse_ansi(run, sequence) ==
    CHOOSE done \in
        {CASE p.result.kind = "Valid" ->
                [run |-> execute_ansi_command(
                             [run EXCEPT !.self.ansi_handler = reset(p.self)],
                             p.result.command),
                 rest |-> p.rest]
           [] p.result.kind = "Incomplete" ->
                [run |-> [run EXCEPT !.self.ansi_handler = p.self], rest |-> p.rest]
           [] p.result.kind = "Error" ->
                [run |-> [run EXCEPT !.self.ansi_handler = reset(p.self)], rest |-> p.rest]
           [] p.result.kind = "Panic" ->
                [run |-> Halt([run EXCEPT !.self.ansi_handler = p.self], p.result.error),
                 rest |-> p.rest] :
            p \in {continue_parse(try_start(run.self.ansi_handler), sequence)}} :
        TRUE

\* The loop of push_input over the characters of the iterator.
RECURSIVE push_chars(_, _)
push_chars(run, input) ==
    IF input = <<>> \/ run.panic # "" THEN run
    ELSE CHOOSE done \in
            {push_chars(step.run, step.rest) :
                step \in {CASE Head(input) = NEWLINE ->
                                [run |-> jump_line(run), rest |-> Tail(input)]
                            [] Head(input) = TAB ->
                                [run |-> send_to_buffer(run, <<SPACE, SPACE, SPACE, SPACE>>),
                                 rest |-> Tail(input)]
                            [] Head(input) = ESC -> parse_ansi(run, Tail(input))
                            [] OTHER ->
                                [run |-> send_char_to_buffer(run, Head(input)),
                                 rest |-> Tail(input)]}} :
            TRUE

\* Terminal::push_input
push_input(run, input) ==
    CHOOSE done \in
        {IF pushed.panic # "" THEN pushed ELSE line_draw(pushed, pushed.self.cursor.line) :
            pushed \in {IF is_active(run.self.ansi_handler)
                        THEN CHOOSE d \in {push_chars(p.run, p.rest) :
                                              p \in {parse_ansi(run, input)}} : TRUE
                        ELSE push_chars(run, input)}} :
        TRUE

----------------------------------------------------------------------------
(* Writes to the terminal.                                                  *)

\* Writes to the terminal in one behaviour.
MaxWrites == 2

\* Lines and columns of the screen, Terminal::new
Heights == {1}
Widths == {2, 3}

\* The memory map the terminal is brought up on: five pages at 0.
TtyMap == <<[base |-> 0, length |-> 5 * PAGE_SIZE, entry_type |-> "USABLE"]>>

\* The decimal digits of n as characters.
RECURSIVE Digits(_)
Digits(n) == IF n < 10 THEN <<48 + n>> ELSE Append(Digits(n \div 10), 48 + (n % 10))

\* ESC '[' parameters final
CSI(params, final) == <<ESC, BRACKET>> \o params \o <<final>>

\* "a" and "?", ' ' and 'q' of DECSCUSR, 'l' of DECRST, 'n' of DSR
LetterA == 97
QuestionMark == 63
LetterQ == 113
LetterL == 108
LetterN == 110

\* A parameter string of BUFFER_SIZE digits.
RECURSIVE Ones(_)
Ones(n) == IF n = 0 THEN <<>> ELSE <<49>> \o Ones(n - 1)

\* The CSI sequences of the dispatch table of parse_final, with parameters
\* the decoder accepts.
TableSequences(height) ==
    {CSI(Digits(31), FinalChar("m")), CSI(<<>>, FinalChar("m")),
     CSI(Digits(44), FinalChar("m")),
     CSI(Digits(2), FinalChar("J")), CSI(<<>>, FinalChar("K")),
     CSI(Digits(1), FinalChar("A")), CSI(Digits(1), FinalChar("B")),
     CSI(Digits(height * LinesPerRow - 1), FinalChar("B")),
     CSI(Digits(height * LinesPerRow), FinalChar("B")),
     CSI(Digits(1), FinalChar("C")), CSI(Digits(1), FinalChar("D")),
     CSI(Digits(1) \o <<SEMICOLON>> \o Digits(1), FinalChar("H")),
     CSI(<<>>, FinalChar("f")),
     CSI(Digits(1), FinalChar("G")),
     CSI(Digits(1), FinalChar("S")), CSI(Digits(2), FinalChar("T"))}

\* Escape sequences the decoder reports an Error for: no '[' after ESC, an
\* unknown final byte, an intermediate byte, more than 19 parameter bytes.
ErrorSequences ==
    {<<ESC, LetterA>>,
     CSI(Digits(5), LetterN),
     CSI(Digits(0) \o <<SPACE>>, LetterQ),
     CSI(Ones(BUFFER_SIZE), FinalChar("m"))}

\* DECTCEM, "\x1b[?25l"
HideCursor == CSI(<<QuestionMark>> \o Digits(25), LetterL)

\* Plain text, with the newline and the tab.
Texts == {<<LetterA>>, <<LetterA, LetterA>>, <<NEWLINE>>, <<TAB>>}

\* The first and the second part of "\x1b[31m" written in two writes.
Parts == {<<ESC, BRACKET>>, <<ESC, BRACKET, 51>>, Digits(31) \o <<FinalChar("m")>>}

\* What one write may carry.
Inputs(height) ==
    Texts \cup TableSequences(height) \cup ErrorSequences \cup {HideCursor} \cup Parts

\* The kernel after frame_allocator::init on the map mm and
\* terminal::tty::init, before the first write.
BringUp(mm, heights, widths) ==
    /\ memory_map = mm
    /\ \E height \in heights, width \in widths, checks \in BOOLEAN :
        \E built \in {new_embedded(mm)} :
            \E r \in {allocate(built.self, height * LinesPerRow * width * CellSize)} :
                /\ built.err = "Ok" /\ r.ok
                /\ region_start = r.self.region_start
                /\ region_end = r.self.region_end
                /\ max_order = r.self.max_order
                /\ markers_ptr = r.self.markers_ptr
                /\ markers = r.self.markers
                /\ state_tree_ptr = r.self.state_tree_ptr
                /\ state_tree = r.self.state_tree
                /\ live = {[addr |-> r.addr, order |-> r.order]}
                /\ buffer = [addr |-> r.addr, size |-> height * LinesPerRow * width * CellSize]
                /\ terminal = Terminal_new(height, width)
                /\ output = [NoOutput EXCEPT !.overflow_checks = checks]
                /\ last = Call("allocate", r)
    /\ status = "ready"
    /\ freed = {}
    /\ pc = 0
    /\ in_progress = <<>>
    /\ prev = [NoCall EXCEPT !.op = "init", !.err = "Ok"]

InitTty == BringUp(TtyMap, Heights, Widths)

\* A write of the string s: push_input over its characters; a panic halts
\* the kernel.
Write(s) ==
    /\ status = "ready"
    /\ terminal # NoTerminal
    /\ \E run \in {push_input(Run(terminal, Self, buffer, live, "", <<>>,
                                  output.overflow_checks), s)} :
        /\ terminal' = run.self
        /\ SetSelf(run.allocator)
        /\ buffer' = run.mem
        /\ live' = run.live
        /\ freed' = IF run.mem.addr # buffer.addr THEN freed \cup {buffer.addr} ELSE freed
        /\ status' = IF run.panic = "" THEN "ready" ELSE "halted"
        /\ output' = [output EXCEPT !.input = s, !.panic = run.panic,
                                    !.scroll_draw = @ \o run.scroll_draw,
                                    !.locks = run.locks,
                                    !.grown = @ \o run.grown,
                                    !.writes = @ + 1]
        /\ last' = [NoCall EXCEPT !.op = "write_str", !.ok = (run.panic = ""),
                                  !.err = run.panic]
    /\ prev' = last
    /\ UNCHANGED <<memory_map, pc, in_progress>>

\* fmt::Write::write_str for Terminal
write_str(s) ==
    /\ output.writes < MaxWrites
    /\ Write(s)

NextTty == \E s \in Inputs(terminal.height) : write_str(s)

SpecTty == InitTty /\ [][NextTty]_vars

\* The write in progress that starts in the current state.
Now == Run(terminal, Self, buffer, live, "", <<>>, output.overflow_checks)

\* C22: the decoder never panics: whatever characters reach
\* continue_parse, in one write or over several, each call returns Valid,
\* Incomplete or Error.
C22_DecoderNeverPanics == output.panic # "unwrap"

\* The cursor is on a line of the screen.
CursorInView(self) ==
    self.scroll <= self.cursor.line /\ self.cursor.line < self.scroll + self.height

\* The write of this step began with the decoder at rest and carried s.
Wrote(S) == ~is_active(terminal.ansi_handler) /\ output'.input \in S

----------------------------------------------------------------------------
(* C23.  The sequences of the dispatch table.                               *)

\* C23: every CSI sequence of the dispatch table (final bytes m, J, K, A,
\* B, C, D, H, f, G, S, T with valid parameters) written to the terminal is
\* executed and the write returns: none halts the kernel.
C23_TableSequencesReturn ==
    [][Wrote(TableSequences(terminal.height)) => output'.panic = ""]_vars

----------------------------------------------------------------------------
(* C24.  Sequences the decoder rejects.                                     *)

\* C24: when the decoder reports an Error for an escape sequence, the
\* decoder is reset, no character of the sequence is written into the text
\* buffer, and cursor, scroll and style are unchanged.
C24_ErrorSequencesDiscarded ==
    [][Wrote(ErrorSequences) => (output'.panic = "" /\ terminal' = terminal)]_vars

----------------------------------------------------------------------------
(* C25.  A sequence split over two writes.                                  *)

\* The escape sequences a write may carry whole.
Sequences(height) == TableSequences(height) \cup ErrorSequences \cup {HideCursor}

\* What the decoder returns for the sequence seq, its ESC taken by
\* push_input, when the first k characters after the ESC come in one call
\* and the others in the next.
DecodeSplit(seq, k) ==
    LET first == continue_parse(try_start(AnsiHandler_new), SubSeq(seq, 2, k + 1))
    IN  IF first.result.kind # "Incomplete" THEN first.result
        ELSE continue_parse(try_start(first.self), SubSeq(seq, k + 2, Len(seq))).result

\* The prefixes of seq the decoder holds as Incomplete: cut after k
\* characters.
Cuts(seq) ==
    {k \in 1 .. Len(seq) - 1 :
        continue_parse(try_start(AnsiHandler_new), SubSeq(seq, 2, k)).result.kind
            = "Incomplete"}

\* The cuts of every sequence a write may carry.
CutsOf == [seq \in UNION {Sequences(height) : height \in Heights} |-> Cuts(seq)]

\* Cut wherever the decoder is Incomplete, a sequence decodes to the command
\* (or the error) it decodes to in one call; ESC '[' and then "31m" decode
\* to the foreground of palette colour 1.
DecoderResumable ==
    /\ DecodeSplit(CSI(Digits(31), FinalChar("m")), 1)
           = Ok([AnsiCommand("SetForeground") EXCEPT !.color = ColorCode(1)])
    /\ \A seq \in DOMAIN CutsOf :
           \A k \in CutsOf[seq] :
               DecodeSplit(seq, k - 1) = DecodeSplit(seq, Len(seq) - 1)

\* C25: decoding is resumable: a prefix of an escape sequence that returns
\* Incomplete, followed by the remainder in a later write, produces the same
\* command and the same terminal state as the whole sequence in one write;
\* ESC '[' and then "31m" set the foreground to palette colour 1.
C25_ResumableDecoding ==
    /\ DecoderResumable
    /\ (status = "ready" /\ terminal # NoTerminal /\ ~is_active(terminal.ansi_handler))
       => \A seq \in Sequences(terminal.height) :
              \A whole \in {push_input(Now, seq)} :
                  \A k \in CutsOf[seq] :
                      \A first \in {push_input(Now, SubSeq(seq, 1, k))} :
                          /\ first.panic = ""
                          /\ is_active(first.self.ansi_handler)
                          /\ push_input(first, SubSeq(seq, k + 1, Len(seq))) = whole

\* "\x1b[" came in one write and "31m" in the next, and the foreground is
\* palette colour 1 with no cell written.
C25_Witness ==
    /\ status = "ready" /\ terminal # NoTerminal
    /\ output.writes = 2
    /\ output.input = Digits(31) \o <<FinalChar("m")>>
    /\ terminal.style.foreground = ColorCode(1)
    /\ terminal.buffer.cells = <<>>
    /\ ~is_active(terminal.ansi_handler)

----------------------------------------------------------------------------
(* C26.  The indices into the cells.                                        *)

\* C26: buffer.len() = max_lines * max_columns, and every index that
\* write_char, write_formatted, get_line_length and get_view read or write
\* is below buffer.len(): the buffer grows before a write that would be out
\* of bounds.
C26_BufferInBounds ==
    terminal # NoTerminal =>
        /\ terminal.buffer.len = terminal.buffer.max_lines * terminal.buffer.max_columns
        /\ output.panic # "bounds"

----------------------------------------------------------------------------
(* C27.  The cursor after text.                                             *)

\* C27: after advance_cursor_wrapping(n) the cursor is on a line of the
\* screen: scroll <= cursor.line < scroll + height, for every n up to a
\* row of cells from a cursor that was on the screen.
C27_CursorStaysInView ==
    (status = "ready" /\ terminal # NoTerminal /\ CursorInView(terminal))
    => \A n \in 0 .. terminal.buffer.max_columns :
           \A advanced \in {advance_cursor_wrapping(Now, n)} :
               advanced.panic = "" => CursorInView(advanced.self)

----------------------------------------------------------------------------
(* C28.  Scenario E: rows written to a terminal of 30 lines.                *)

\* Rows written in one behaviour.
MaxRows == 32

\* Lines of the screen in scenario E.
ScenarioHeight == 30

\* A map with room for the cells of a terminal of 30 lines.
ScenarioMap == <<[base |-> 0, length |-> 16 * PAGE_SIZE, entry_type |-> "USABLE"]>>

InitE == BringUp(ScenarioMap, {ScenarioHeight}, Widths)

\* A row: its text and the newline, in one write or in two.
Row == <<LetterA, NEWLINE>>

write_row ==
    /\ terminal.cursor.line < MaxRows
    /\ terminal.cursor.column = 0
    /\ Write(Row)

write_text ==
    /\ terminal.cursor.line < MaxRows
    /\ terminal.cursor.column = 0
    /\ Write(<<LetterA>>)

write_newline ==
    /\ terminal.cursor.column # 0
    /\ Write(<<NEWLINE>>)

NextE == write_row \/ write_text \/ write_newline

SpecE == InitE /\ [][NextE]_vars

\* C28: scenario E: on an empty terminal of height 30 with scroll 0, after
\* 31 newline-terminated rows the scroll is 1 and scroll_draw(1, false) was
\* invoked exactly once.
C28_ScenarioE ==
    (terminal.height = ScenarioHeight /\ terminal.cursor = [line |-> 31, column |-> 0])
    => /\ status = "ready"
       /\ terminal.scroll = 1
       /\ output.scroll_draw = <<[scroll_delta |-> 1, clear_scroll |-> FALSE]>>

\* The 31st row has been written and the screen has scrolled.
C28_Witness ==
    /\ status = "ready"
    /\ terminal.height = ScenarioHeight
    /\ terminal.cursor = [line |-> 31, column |-> 0]
    /\ terminal.scroll = 1
    /\ \A line \in 0 .. 30 : (line * terminal.buffer.max_columns) \in DOMAIN terminal.buffer.cells

----------------------------------------------------------------------------
(* C29.  Scenario C: the style of the cells.                                *)

\* Columns of the terminal in scenario C: a row holds "hello".
ScenarioWidths == {6, 7}

InitC == BringUp(TtyMap, Heights, ScenarioWidths)

\* "hello\n", "err" and "\x1b[31merr\x1b[0m"
Hello == <<104, 101, 108, 108, 111, NEWLINE>>
ErrText == <<101, 114, 114>>
SGR(n) == CSI(Digits(n), FinalChar("m"))
ErrLine == SGR(31) \o ErrText \o SGR(0)

\* What a write of scenario C may carry: text, or style commands, or the
\* red "err".
StyledTexts == {Hello, ErrText, <<LetterA>>}
StyleCommands == {SGR(31), SGR(44), SGR(0)}
ScenarioInputs == StyledTexts \cup StyleCommands \cup {ErrLine}

NextC == \E s \in ScenarioInputs : write_str(s)

SpecC == InitC /\ [][NextC]_vars

\* The cells that this step wrote: the new ones and the ones it changed.
WrittenCells ==
    {i \in DOMAIN terminal'.buffer.cells :
        i \notin DOMAIN terminal.buffer.cells
            \/ terminal'.buffer.cells[i] # terminal.buffer.cells[i]}

\* The cells written before this step are as they were.
CellsKept ==
    /\ DOMAIN terminal'.buffer.cells = DOMAIN terminal.buffer.cells
    /\ \A i \in DOMAIN terminal.buffer.cells :
           terminal'.buffer.cells[i] = terminal.buffer.cells[i]

\* The index of the cell under the cursor.
CursorCell(self) == self.cursor.line * self.buffer.max_columns + self.cursor.column

\* C29: style is captured per cell at write time: after "hello\n" on the
\* fresh terminal the cursor is at line 1, column 0; the cells a write puts
\* down carry the style in force when they are written (foreground palette
\* colour 1 after ESC[31m); an SGR command changes the style of later cells
\* only, and SGR 0 restores DefaultForeground and DefaultBackground without
\* altering a cell.
C29_StylePerCell ==
    [][/\ (output.writes = 0 /\ output'.input = Hello)
          => terminal'.cursor = [line |-> 1, column |-> 0]
       /\ Wrote(StyledTexts)
          => /\ output'.panic = ""
             /\ terminal'.style = terminal.style
             /\ \A i \in WrittenCells : terminal'.buffer.cells[i].style = terminal.style
       /\ Wrote(StyleCommands)
          => /\ output'.panic = ""
             /\ CellsKept
             /\ output'.input = SGR(31)
                => terminal'.style = [terminal.style EXCEPT !.foreground = ColorCode(1)]
             /\ output'.input = SGR(44)
                => terminal'.style = [terminal.style EXCEPT !.background = ColorCode(4)]
             /\ output'.input = SGR(0) => terminal'.style = Style_default
       /\ Wrote({ErrLine})
          => /\ output'.panic = ""
             /\ terminal'.style = Style_default
             /\ \A k \in 1 .. Len(ErrText) :
                    terminal'.buffer.cells[CursorCell(terminal) + k - 1]
                        = [style |-> [terminal.style EXCEPT !.foreground = ColorCode(1)],
                           content |-> ErrText[k]]
             /\ WrittenCells \subseteq
                    CursorCell(terminal) .. CursorCell(terminal) + Len(ErrText) - 1
      ]_vars

\* Scenario C has run: "hello" stands in the default style on line 0, "err"
\* in palette colour 1 on line 1, and the style is the default again.
C29_Witness ==
    /\ status = "ready" /\ terminal # NoTerminal
    /\ output.writes = 2 /\ output.input = ErrLine
    /\ terminal.style = Style_default
    /\ DOMAIN terminal.buffer.cells
           = (0 .. 4) \cup (terminal.buffer.max_columns .. terminal.buffer.max_columns + 2)
    /\ \A k \in 1 .. 5 :
           terminal.buffer.cells[k - 1] = [style |-> Style_default, content |-> Hello[k]]
    /\ \A k \in 1 .. 3 :
           terminal.buffer.cells[terminal.buffer.max_columns + k - 1]
               = [style |-> [Style_default EXCEPT !.foreground = ColorCode(1)],
                  content |-> ErrText[k]]

----------------------------------------------------------------------------
(* C31.  What free changes.                                                 *)

\* The cells of the subtree of `block`, the block included.
Subtree(block) ==
    {i \in 1 .. 2 * Pow2(max_order) - 1 :
        \E d \in 0 .. max_order : i \div Pow2(d) = block}

\* The cells above `block` on its path to the root.
Ancestors(block) ==
    {i \in 1 .. 2 * Pow2(max_order) - 1 :
        \E d \in 1 .. max_order : block \div Pow2(d) = i}

\* The index of the block of a live allocation.
BlockOf(l) ==
    Pow2(l.order) + (l.addr - region_start) \div (PAGE_SIZE * Pow2(max_order - l.order))

\* C31: free(addr) of an address that a live allocation of order k returned
\* frees exactly that block: the descent ends at the allocated block itself,
\* exactly the cells of its subtree that are not Reserved become Free, and
\* every cell outside the subtree and the path to the root keeps its state.
C31_FreeExactlyTheBlock ==
    [][(status = "ready" /\ last'.op = "free")
        => /\ last'.ok
           /\ \E l \in live :
                /\ l.addr = last'.addr
                /\ last'.block = BlockOf(l)
                /\ last'.order = l.order
                /\ state_tree[BlockOf(l)] = "Allocated"
           /\ \A i \in Subtree(last'.block) :
                state_tree'[i] = IF state_tree[i] = "Reserved" THEN "Reserved" ELSE "Free"
           /\ \A i \in DOMAIN state_tree \ (Subtree(last'.block) \cup Ancestors(last'.block)) :
                state_tree'[i] = state_tree[i]]_vars

\* A block of several pages was freed while its buddy stayed allocated.
C31_Witness ==
    /\ status = "ready"
    /\ last.op = "free" /\ last.ok /\ last.order < max_order /\ last.block > 1
    /\ state_tree[last.block] = "Free"
    /\ state_tree[buddy(last.block)] = "Allocated"
    /\ \E l \in live : BlockOf(l) = buddy(last.block)

----------------------------------------------------------------------------
(* C32.  Construction on maps that keep the input contract.                 *)

\* C32: construction succeeds for every memory map whose USABLE entries are
\* page aligned, sorted by base and not overlapping and that holds a USABLE
\* entry long enough for the metadata, whatever the distance between
\* consecutive USABLE entries, entries that touch included.
C32_ConstructionSucceeds ==
    last.op = "init" =>
        LET usable == usable_entries(memory_map) IN
        (/\ Len(usable) > 0
         /\ \E i \in 1 .. Len(usable) : usable[i].length >= total_size(usable))
        => last.ok

----------------------------------------------------------------------------
(* The decoder on its own: the characters that follow an ESC are handed to  *)
(* continue_parse one at a time or all at once, as parse_ansi hands them.   *)
(* `output` holds the characters, the handler and the last result.          *)

\* Parameter bytes of the longest parameter string handed to the decoder.
MaxParamBytes == 21

RECURSIVE Zeros(_)
Zeros(n) == IF n = 0 THEN <<>> ELSE <<48>> \o Zeros(n - 1)

\* The fields joined by ';'
RECURSIVE Join(_)
Join(fields) ==
    IF Len(fields) = 0 THEN <<>>
    ELSE IF Len(fields) = 1 THEN fields[1]
    ELSE fields[1] \o <<SEMICOLON>> \o Join(Tail(fields))

\* '[' parameters final: a CSI sequence after its ESC
AfterEsc(params, final) == <<BRACKET>> \o params \o <<final>>

\* "2147483648", one above i32::MAX
TooBig == Append(Digits(I32_MAX \div 10), 56)

\* Parameter strings of 0 .. MaxParamBytes bytes
LongParams == {Zeros(n) : n \in 0 .. MaxParamBytes}

\* A field of the parameters: its characters and the integer it stands
\* for. Number(v) has the digits of v, Empty has no character and stands
\* for 0, Private is "?25" and Big is "2147483648", no number of an i32.
Number(v) == [text |-> Digits(v), integer |-> TRUE, value |-> v]
Empty == [text |-> <<>>, integer |-> TRUE, value |-> 0]
Private == [text |-> <<QuestionMark>> \o Digits(25), integer |-> FALSE, value |-> 0]
Big == [text |-> TooBig, integer |-> FALSE, value |-> 0]

Field(v) == v.text

Fields(list) == [i \in 1 .. Len(list) |-> Field(list[i])]

Numbers(list) == [i \in 1 .. Len(list) |-> Number(list[i])]

\* Lists of fields: none, empty ones, five, six, and fields that are no
\* number of an i32
FieldLists ==
    {<<>>, <<Empty, Empty>>, Numbers(<<7>>), <<Number(7), Empty>>,
     <<Empty, Number(7)>>, Numbers(<<0, 12>>),
     Numbers(<<1, 2, 3, 4, 5>>), Numbers(<<1, 2, 3, 4, 5, 6>>),
     <<Empty, Empty, Empty, Empty, Empty>>,
     <<Empty, Empty, Empty, Empty, Empty, Empty>>,
     Numbers(<<I32_MAX>>), <<Private>>, <<Big>>,
     <<Private, Empty, Empty, Empty, Empty, Empty>>}

\* SGR parameters around the ends of every range of parse_16_sgr
SgrCodes ==
    {0, 1, 29, 30, 37, 38, 39, 40, 47, 48, 89, 90, 97, 98, 99, 100, 107, 108,
     I32_MAX}

\* Colour numbers around the ends of the ranges of parse_256_sgr
ColorNumbers == {0, 15, 16, 17, 51, 231, 232, 233, 255, 256}

\* Components of an RGB colour
Components == {0, 10, 255, 256}

\* 38 and 48: foreground and background
Zones == {38, 48}

ExtendedColors ==
    {<<Digits(z), Digits(5), Digits(n)>> : z \in Zones, n \in ColorNumbers}
        \cup {<<Digits(z), Digits(2), Digits(c[1]), Digits(c[2]), Digits(c[3])>> :
                 z \in Zones,
                 c \in {<<10, 20, 30>>} \cup
                       {x \in Components \X Components \X Components :
                           Cardinality({i \in 1 .. 3 : x[i] # 0}) <= 1}}
        \cup {<<Digits(z), Digits(5), TooBig>> : z \in Zones}
        \cup {<<Digits(z), Digits(2), Digits(0), Digits(0), TooBig>> : z \in Zones}

DecoderInputs ==
    {AfterEsc(params, FinalChar("m")) : params \in LongParams}
        \cup {AfterEsc(Join(Fields(list)), FinalChar("H")) : list \in FieldLists}
        \cup {AfterEsc(Digits(n), FinalChar("m")) : n \in SgrCodes}
        \cup {AfterEsc(<<>>, FinalChar("m")), AfterEsc(TooBig, FinalChar("m"))}
        \cup {AfterEsc(Join(fields), FinalChar("m")) : fields \in ExtendedColors}
        \cup {AfterEsc(params, final) :
                 params \in {<<>>, Digits(2)}, final \in {FinalChar("S"), FinalChar("T")}}

InitAnsi ==
    /\ memory_map = <<>>
    /\ status = "uninit"
    /\ region_start = 0
    /\ region_end = 0
    /\ max_order = 0
    /\ markers_ptr = 0
    /\ markers = <<>>
    /\ state_tree_ptr = 0
    /\ state_tree = <<>>
    /\ live = {}
    /\ freed = {}
    /\ pc = 0
    /\ in_progress = <<>>
    /\ buffer = NoBuffer
    /\ terminal = NoTerminal
    /\ \E s \in DecoderInputs :
           output = [input |-> s, rest |-> s, handler |-> try_start(AnsiHandler_new),
                     result |-> Incomplete]
    /\ last = NoCall
    /\ prev = NoCall

\* One call of continue_parse with the first k characters not yet decoded.
Decode(k) ==
    /\ terminal = NoTerminal
    /\ output.result.kind = "Incomplete"
    /\ k \in 1 .. Len(output.rest)
    /\ \E p \in {continue_parse(try_start(output.handler), SubSeq(output.rest, 1, k))} :
           output' = [output EXCEPT
                         !.handler = p.self,
                         !.result = p.result,
                         !.rest = p.rest \o SubSeq(output.rest, k + 1, Len(output.rest))]
    /\ UNCHANGED <<memory_map, status, region_start, region_end, max_order, markers_ptr,
                   markers, state_tree_ptr, state_tree, live, freed, pc, in_progress,
                   buffer, terminal, last, prev>>

decode_char == Len(output.rest) >= 1 /\ Decode(1)

decode_rest == Len(output.rest) > 1 /\ Decode(Len(output.rest))

NextAnsi == decode_char \/ decode_rest

SpecAnsi == InitAnsi /\ [][NextAnsi]_vars

\* The decoder has returned its result for the sequence `s`.
Decoded(s) == output.input = s /\ output.result.kind # "Incomplete"

----------------------------------------------------------------------------
(* C33.  The parameter buffer.                                              *)

\* C33: the parameter buffer holds 20 bytes: a CSI sequence with up to 20
\* parameter bytes is accepted, BufferOverflow is returned only for a
\* parameter byte beyond the 20th, and the write index stays below the size
\* of the buffer.
C33_ParameterBuffer ==
    terminal = NoTerminal =>
        /\ output.handler.ptr < BUFFER_SIZE
        /\ \A n \in 0 .. MaxParamBytes :
               Decoded(AfterEsc(Zeros(n), FinalChar("m")))
               => output.result = IF n <= BUFFER_SIZE
                                  THEN Ok(AnsiCommand("ResetGraphicRendition"))
                                  ELSE Err("BufferOverflow")

----------------------------------------------------------------------------
(* C34.  The parameters.                                                    *)

\* C34: after the final byte the buffered parameters are split on ';' into
\* at most 5 non-negative integers, an empty field counts as 0, an empty
\* parameter string gives no parameter, and a sequence of more than 5
\* fields gives Error(Unsupported).
C34_ParameterParsing ==
    terminal = NoTerminal =>
        \A list \in FieldLists :
            Decoded(AfterEsc(Join(Fields(list)), FinalChar("H")))
            => LET read == read_params(output.handler.buffer) IN
               /\ output.result.kind # "Panic"
               /\ IF Len(list) > 5 THEN output.result = Err("Unsupported")
                  ELSE /\ read.err = ""
                       /\ Len(read.params) = Len(list)
                       /\ \A i \in 1 .. Len(list) :
                              /\ read.params[i] >= 0
                              /\ list[i] = Empty => read.params[i] = 0
                              /\ list[i].integer => read.params[i] = list[i].value

----------------------------------------------------------------------------
(* C35.  SGR with one parameter.                                            *)

SetForeground(color) == Ok([AnsiCommand("SetForeground") EXCEPT !.color = color])
SetBackground(color) == Ok([AnsiCommand("SetBackground") EXCEPT !.color = color])

\* What an SGR sequence with the single parameter n stands for.
Sgr16(n) ==
    IF n = 0 THEN Ok(AnsiCommand("ResetGraphicRendition"))
    ELSE IF 30 <= n /\ n <= 37 THEN SetForeground(ColorCode(n - 30))
    ELSE IF 90 <= n /\ n <= 97 THEN SetForeground(ColorCode(n - 90 + 8))
    ELSE IF 40 <= n /\ n <= 47 THEN SetBackground(ColorCode(n - 40))
    ELSE IF 100 <= n /\ n <= 107 THEN SetBackground(ColorCode(n - 100 + 8))
    ELSE Err("InvalidParameters")

\* C35: SGR with a single parameter n: 0, or no parameter, gives
\* ResetGraphicRendition; 30..37 and 90..97 give SetForeground of palette
\* colour n - 30 and n - 90 + 8; 40..47 and 100..107 give SetBackground of
\* palette colour n - 40 and n - 100 + 8; every other n gives
\* Error(InvalidParameters); the palette index is in 0 .. 15.
C35_SgrSingleParameter ==
    terminal = NoTerminal =>
        /\ \A n \in SgrCodes :
               Decoded(AfterEsc(Digits(n), FinalChar("m"))) => output.result = Sgr16(n)
        /\ Decoded(AfterEsc(<<>>, FinalChar("m")))
               => output.result = Ok(AnsiCommand("ResetGraphicRendition"))
        /\ Decoded(AfterEsc(TooBig, FinalChar("m")))
               => output.result = Err("InvalidParameters")
        /\ (output.result.kind = "Valid" /\ output.result.command.color.kind = "ColorCode")
               => output.result.command.color.r \in 0 .. 15

----------------------------------------------------------------------------
(* C36.  SGR with an extended colour.                                       *)

\* The colour with the number n of the 256-colour table.
Color256(n) ==
    IF n < 16 THEN ColorCode(n)
    ELSE IF n < 232
    THEN Rgb(CubeMap[((n - 16) \div 36) + 1], CubeMap[(((n - 16) \div 6) % 6) + 1],
             CubeMap[((n - 16) % 6) + 1])
    ELSE Rgb(8 + 10 * (n - 232), 8 + 10 * (n - 232), 8 + 10 * (n - 232))

\* SetForeground for 38 and SetBackground for 48
SetZone(zone, color) == IF zone = 38 THEN SetForeground(color) ELSE SetBackground(color)

\* C36: '38;5;n' and '48;5;n' set foreground and background to palette
\* colour n for n in 0..15, to the colour of the 6 x 6 x 6 cube for n in
\* 16..231 and to the grey 8 + 10 * (n - 232) for n in 232..255;
\* '38;2;r;g;b' and '48;2;r;g;b' give Rgb(r, g, b); a component above 255
\* gives Error(InvalidParameters).
C36_SgrExtendedColors ==
    terminal = NoTerminal =>
        \A z \in Zones :
            /\ \A n \in ColorNumbers :
                   Decoded(AfterEsc(Join(<<Digits(z), Digits(5), Digits(n)>>), FinalChar("m")))
                   => output.result = IF n <= 255 THEN SetZone(z, Color256(n))
                                      ELSE Err("InvalidParameters")
            /\ \A r \in Components \cup {20}, g \in Components \cup {20},
                  b \in Components \cup {30} :
                   Decoded(AfterEsc(Join(<<Digits(z), Digits(2), Digits(r), Digits(g),
                                           Digits(b)>>), FinalChar("m")))
                   => output.result = IF r <= 255 /\ g <= 255 /\ b <= 255
                                      THEN SetZone(z, Rgb(r, g, b))
                                      ELSE Err("InvalidParameters")
            /\ Decoded(AfterEsc(Join(<<Digits(z), Digits(5), TooBig>>), FinalChar("m")))
                   => output.result = Err("InvalidParameters")
            /\ Decoded(AfterEsc(Join(<<Digits(z), Digits(2), Digits(0), Digits(0), TooBig>>),
                                FinalChar("m")))
                   => output.result = Err("InvalidParameters")


----------------------------------------------------------------------------
\* The scroll commands

ScrollDown == CSI(Digits(1), FinalChar("S"))
ScrollUp == CSI(Digits(2), FinalChar("T"))

\* C37: a write of "\x1b[1S" scrolls the view down by one line (scroll
\* increases by 1, up to max_lines), and a write of "\x1b[2T" scrolls it up
\* by two lines (scroll decreases by 2, saturating at 0).
C37_ScrollCommands ==
    [][/\ Wrote({ScrollDown})
          => terminal'.scroll = min(terminal.scroll + 1, terminal.buffer.max_lines)
       /\ Wrote({ScrollUp})
          => terminal'.scroll = IF terminal.scroll < 2 THEN 0 ELSE terminal.scroll - 2]_vars


----------------------------------------------------------------------------
\* The growth of the cell buffer

\* C38: grow_buffer doubles max_lines and the length of the buffer, the
\* length stays max_lines * max_columns, every cell that existed keeps its
\* content, every cell of the new tail is empty, and the block that held
\* the cells is released to the frame allocator.
C38_GrowBuffer ==
    (status = "ready" /\ terminal # NoTerminal)
    => \A grown \in {grow_buffer(Now)} :
           grown.panic = ""
           => /\ grown.self.buffer.max_lines = 2 * terminal.buffer.max_lines
              /\ grown.self.buffer.len = 2 * terminal.buffer.len
              /\ grown.self.buffer.len
                     = grown.self.buffer.max_lines * grown.self.buffer.max_columns
              /\ \A i \in DOMAIN terminal.buffer.cells :
                     /\ i \in DOMAIN grown.self.buffer.cells
                     /\ grown.self.buffer.cells[i] = terminal.buffer.cells[i]
              /\ \A i \in terminal.buffer.len .. grown.self.buffer.len - 1 :
                     i \notin DOMAIN grown.self.buffer.cells
              /\ grown.mem.addr # buffer.addr
              /\ \A l \in grown.live : l.addr # buffer.addr
              /\ \A l \in live :
                     l.addr = buffer.addr
                     => grown.allocator.state_tree[BlockOf(l)] = "Free"

\* A write grew the buffer of a terminal of one row: the cell written before
\* the growth is kept, the buffer holds twice the lines in another block and
\* the first block was freed.
C38_Witness ==
    /\ status = "ready"
    /\ terminal # NoTerminal
    /\ terminal.buffer.max_lines = 2 * terminal.height * LinesPerRow
    /\ terminal.buffer.len = 2 * terminal.height * LinesPerRow * terminal.width
    /\ (terminal.height * LinesPerRow * terminal.width - 2) \in DOMAIN terminal.buffer.cells
    /\ freed # {}
    /\ buffer.addr \notin freed
    /\ \E l \in live : l.addr = buffer.addr


----------------------------------------------------------------------------
\* The scroll position and the cursor line

\* C39: after every write to the terminal the scroll position is at most
\* the cursor line, so line_draw of the cursor line never subtracts below
\* zero.
C39_ScrollAtMostCursorLine ==
    terminal # NoTerminal
    => /\ terminal.scroll <= terminal.cursor.line
       /\ output.panic # "overflow"


----------------------------------------------------------------------------
\* The locks held while the buffer grows

====
